---- MODULE Spec2Model ----
(***************************************************************************)
(* SoulJournal: the journal store hook (useJournalStorage), its load and   *)
(* save effects over localStorage, and the pure helpers it is built from;  *)
(* the chat screen of JournalApp and ChatInterface; the reflection hooks   *)
(* (useAIReflection); the recorder hooks (useVoiceRecorder, useRecorder);  *)
(* the speech recognition hooks (useTranscription) and ChatInterface's     *)
(* voice input over them; and the session provider (useAuth).              *)
(* Strings that the code inspects character by character (turn texts,      *)
(* queries, ids, titles) are sequences of one-character strings; opaque    *)
(* strings (storage keys, audio URLs, uids) are TLA+ strings.              *)
(***************************************************************************)
EXTENDS Integers, Sequences, FiniteSets, TLC

VARIABLES
  entries,    \* useState<JournalEntry[]>: the collection the current render sees
  user,       \* useAuth().user?.uid as last set by the auth provider
  renderedUid,\* user?.uid captured by the committed render (effects' closure)
  storage,    \* localStorage: key -> [present, json]
  queue,      \* setEntries updates queued and not yet applied by a render
  effects,    \* effects of the committed render that have not run yet
  now,        \* Date.now()
  calls,      \* number of store calls made so far
  last,       \* the most recent store call: its arguments, result and closure
  returned,   \* ids returned by addEntry, oldest first
  authChanges,\* number of identity changes so far
  origin,     \* <<id, uid>> for every entry created, uid being current then
  deleted,    \* <<id, uid>> for every deleteEntry that returned true under uid
  serial,     \* the mutations made so far, each applied to the previous result
  switch,     \* the most recent identity change: who left, and what was there
  write,      \* how setItem ended in the committed render's save effect
  uncaught,   \* an exception has left an effect of the hook
  hook,       \* the store hook that is mounted
  got         \* what getItem returned to the most recent load effect

storeVars == <<entries, user, renderedUid, storage, queue, effects, now, calls,
               last, returned, authChanges, origin, deleted, serial, switch, write, uncaught,
               hook, got>>

\* JournalApp and the ChatInterface it renders.
VARIABLES
  view,            \* JournalApp: "list" | "chat" | "view"
  selectedEntryId, \* JournalApp: string | null
  isContinuation,  \* JournalApp
  initialMessages, \* JournalApp
  messages,        \* ChatInterface: the turns shown (<<>> while not mounted)
  isAiTyping,      \* ChatInterface: a reply is awaited
  isAiGenerating,  \* ChatInterface: set by Save before it asks for a summary
  pendingSave,     \* handleSaveConversation suspended at await, with its closure
  contConv,        \* the stored conversation found when the continuation began
  saveLog          \* Save activations and onSaveConversation calls so far, and
                   \* what the most recent call was given

appVars == <<view, selectedEntryId, isContinuation, initialMessages, messages,
             isAiTyping, isAiGenerating, pendingSave, contConv, saveLog>>

\* useAIReflection (the reflection client).
VARIABLES
  aiVariant,    \* which useAIReflection is built in: "DeepSeek" | "Gemini"
  apiKey,       \* the variant's API key is configured in the environment
  aiHook,       \* useAIReflection(): "unmounted" | "mounted" | "threw"
  isGenerating, \* useState(false)
  aiError,      \* useState<string | null>(null): an error is set
  aiCall,       \* the generateReflection call in flight
  aiResults     \* how the calls made so far ended, oldest first

reflectionVars == <<aiVariant, apiKey, aiHook, isGenerating, aiError, aiCall,
                    aiResults>>

\* useVoiceRecorder / useRecorder (audio capture).
VARIABLES
  recVariant,       \* which recorder hook is built in
  streams,          \* MediaStreams obtained so far, with their MediaRecorders
  startsPending,    \* startRecording calls suspended at await getUserMedia
  mediaRecorderRef, \* index into streams of the recorder held (0: null)
  streamRef,        \* index into streams of streamRef.current (0: null)
  isRecording,      \* useState(false)
  audioURL,         \* useState<string | null>(null)
  recError,         \* useState<string | null>(null): an error is set
  recEscaped,       \* an exception has left startRecording or stopRecording
  afterStop,        \* stopRecording has completed; no start or stream since
  audioChunks,      \* number of Blobs in audioChunksRef.current
  afterReset        \* resetRecording has completed with nothing recording or
                    \* starting; no start or stop since

recorderVars == <<recVariant, streams, startsPending, mediaRecorderRef,
                  streamRef, isRecording, audioURL, recError, recEscaped,
                  afterStop, audioChunks, afterReset>>

\* useTranscription (speech recognition).
VARIABLES
  srVariant,    \* which useTranscription is built in
  sessions,     \* the SpeechRecognition instances started so far, by state:
                \* "idle" | "starting" | "active" | "stopping"
  isListening,  \* useState(false)
  srTranscript,  \* number of results appended to the transcript
  srError,      \* useState<string | null>(null): an error is set
  srUncaught,   \* an exception was thrown where nothing catches it
  restartTimer, \* the 100 ms timer of startListening's catch is pending
  restarted,    \* the last call was startListening while a session was active
  stopped,      \* the last call was stopListening while a session was active
  chatRec,      \* ChatInterface's recording: "idle" | "starting" (awaiting
                \* startRecording) | "recording" | "stopped"
  listenTimer,  \* 300 ms timers of handleStartRecording that are pending
  chatStarts,   \* handleStartRecording calls so far
  isReviewing   \* ChatInterface: useState(false)

\* ChatInterface's own part of the voice input.
voice == <<chatRec, listenTimer, chatStarts, isReviewing>>

speechVars == <<srVariant, sessions, isListening, srTranscript, srError,
                srUncaught, restartTimer, restarted, stopped, voice>>

\* AuthProvider of src/hooks/useAuth.tsx (the mock session provider).
VARIABLES
  authUser,      \* useState<User | null>(null)
  authIsLoading, \* useState<boolean>(true)
  authError,     \* useState<string | null>(null)
  authSession,   \* localStorage item 'user'
  authMounted,   \* the mount effect has run
  authPending,   \* login / register calls suspended at the 1000 ms await,
                 \* oldest first
  authCalls,     \* number of login / register / logout calls so far
  authLast       \* the call that completed in the last step, with the user
                 \* and session it found

authVars == <<authUser, authIsLoading, authError, authSession, authMounted,
              authPending, authCalls, authLast>>

\* State of the parts of the application outside the store.
outside == <<appVars, reflectionVars, recorderVars, speechVars, authVars>>

vars == <<storeVars, outside>>

----------------------------------------------------------------------------
(* Bounds of the model. *)

MaxEvents == 3     \* store calls plus identity changes in one behaviour
MaxClock == 2      \* last value of Date.now()
MaxLen == 2        \* longest collection SpecPure starts from
MaxTurns == 3      \* most turns typed into one ChatInterface
MaxReflections == 2 \* generateReflection calls in one behaviour
MaxStreams == 2    \* getUserMedia requests in one behaviour
MaxSessions == 2   \* SpeechRecognition instances started in one behaviour
MaxResults == 2    \* recognition results delivered in one behaviour
MaxSaves == 2      \* activations of Save in one behaviour
MaxAuthCalls == 2  \* login / register / logout calls in one behaviour
MaxRecordings == 2 \* handleStartRecording calls in one behaviour

----------------------------------------------------------------------------
(* Characters and strings. *)

Whitespace == {" ", "\t", "\n"}

\* String.prototype.toLowerCase on one character of the model's alphabet.
LowerChar(c) ==
  CASE c = "A" -> "a"
    [] c = "B" -> "b"
    [] c = "H" -> "h"
    [] c = "I" -> "i"
    [] OTHER -> c

toLowerCase(s) == [i \in 1..Len(s) |-> LowerChar(s[i])]

\* String.prototype.includes: q occurs in s at some offset.
includes(s, q) ==
  \E i \in 0..(Len(s) - Len(q)) : SubSeq(s, i + 1, i + Len(q)) = q

\* String.prototype.trim: drop leading and trailing whitespace.
trim(s) ==
  LET keep == {i \in 1..Len(s) : s[i] \notin Whitespace}
  IN  IF keep = {} THEN <<>>
      ELSE LET lo == CHOOSE i \in keep : \A j \in keep : i <= j
               hi == CHOOSE i \in keep : \A j \in keep : i >= j
           IN  SubSeq(s, lo, hi)

\* String.prototype.substring(0, n)
substring(s, n) == SubSeq(s, 1, IF n < Len(s) THEN n ELSE Len(s))

Ellipsis == <<".", ".", ".">>

\* String.prototype.split(' '): the pieces between single spaces.
RECURSIVE split(_)
split(s) ==
  LET sp == {i \in 1..Len(s) : s[i] = " "}
  IN  IF sp = {} THEN <<s>>
      ELSE LET k == CHOOSE i \in sp : \A j \in sp : i <= j
           IN  <<SubSeq(s, 1, k - 1)>> \o split(SubSeq(s, k + 1, Len(s)))

\* Array.prototype.slice(0, n)
slice(a, n) == SubSeq(a, 1, IF n < Len(a) THEN n ELSE Len(a))

\* Array.prototype.join(' ')
RECURSIVE join(_)
join(a) ==
  IF Len(a) = 0 THEN <<>>
  ELSE IF Len(a) = 1 THEN a[1]
  ELSE a[1] \o <<" ">> \o join(Tail(a))

Digit(d) ==
  CASE d = 0 -> "0" [] d = 1 -> "1" [] d = 2 -> "2" [] d = 3 -> "3"
    [] d = 4 -> "4" [] d = 5 -> "5" [] d = 6 -> "6" [] d = 7 -> "7"
    [] d = 8 -> "8" [] OTHER -> "9"

\* Number.prototype.toString for a non-negative integer.
RECURSIVE toString(_)
toString(n) ==
  IF n < 10 THEN <<Digit(n)>> ELSE toString(n \div 10) \o <<Digit(n % 10)>>

----------------------------------------------------------------------------
(* Dates.  A Date object is [time |-> milliseconds since the epoch]; its    *)
(* ISO-8601 string (Date.prototype.toISOString, used by JSON.stringify      *)
(* through toJSON) is the record of its UTC calendar fields.                *)

MsPerDay == 24 * 60 * 60 * 1000

\* Day number since 1970-01-01 to <<year, month, day>> (proleptic Gregorian).
CivilFromDays(z0) ==
  LET z   == z0 + 719468
      era == z \div 146097
      doe == z - era * 146097
      yoe == (doe - doe \div 1460 + doe \div 36524 - doe \div 146096) \div 365
      doy == doe - (365 * yoe + yoe \div 4 - yoe \div 100)
      mp  == (5 * doy + 2) \div 153
      d   == doy - (153 * mp + 2) \div 5 + 1
      m   == IF mp < 10 THEN mp + 3 ELSE mp - 9
      y   == yoe + era * 400 + (IF m <= 2 THEN 1 ELSE 0)
  IN  <<y, m, d>>

DaysFromCivil(y0, m, d) ==
  LET y   == IF m <= 2 THEN y0 - 1 ELSE y0
      era == y \div 400
      yoe == y - era * 400
      doy == (153 * (IF m > 2 THEN m - 3 ELSE m + 9) + 2) \div 5 + d - 1
      doe == yoe * 365 + yoe \div 4 - yoe \div 100 + doy
  IN  era * 146097 + doe - 719468

\* Date.prototype.toISOString: YYYY-MM-DDTHH:mm:ss.sssZ
toISOString(date) ==
  LET t   == date.time
      ymd == CivilFromDays(t \div MsPerDay)
      r   == t % MsPerDay
  IN  [Y |-> ymd[1], M |-> ymd[2], D |-> ymd[3],
       h |-> r \div 3600000, m |-> (r \div 60000) % 60,
       s |-> (r \div 1000) % 60, ms |-> r % 1000]

\* new Date(isoString)
newDate(iso) ==
  [time |-> DaysFromCivil(iso.Y, iso.M, iso.D) * MsPerDay
            + iso.h * 3600000 + iso.m * 60000 + iso.s * 1000 + iso.ms]

----------------------------------------------------------------------------
(* Journal entries. *)

PreviewLen == 100
MinPassword == 6   \* password.length < 6
TitleWords == 5

Null == "<null>"
Undefined == [undefined |-> TRUE]
NoUser == "<no user>"
Uids == {"u1", "u2"}
Users == Uids \cup {NoUser}

\* const getStorageKey = () => `journalEntries_${user?.uid || 'anonymous'}`
getStorageKey(uid) ==
  "journalEntries_" \o (IF uid = NoUser THEN "anonymous" ELSE uid)

Keys == {getStorageKey(u) : u \in Users}

\* localStorage.getItem('journalEntries') in the earlier store hook
LegacyKey == "journalEntries"

\* Array.prototype.find on the sender of a turn.
firstUserMessage(conversation) ==
  LET hits == {i \in 1..Len(conversation) : conversation[i].sender = "user"}
  IN  IF hits = {} THEN Undefined
      ELSE conversation[CHOOSE i \in hits : \A j \in hits : i <= j]

\* generateTitle marking a text of exactly five words as truncated.
generateTitle_MarksFive(conversation) ==
  LET first == firstUserMessage(conversation)
  IN  IF first = Undefined THEN
        <<"N","e","w"," ","J","o","u","r","n","a","l"," ","E","n","t","r","y">>
      ELSE LET words      == split(first.text)
               titleWords == slice(words, TitleWords)
               title      == join(titleWords)
           IN  IF Len(words) >= TitleWords THEN title \o Ellipsis ELSE title

generateTitle(conversation) ==
  LET first == firstUserMessage(conversation)
  IN  IF first = Undefined THEN
        <<"N","e","w"," ","J","o","u","r","n","a","l"," ","E","n","t","r","y">>
      ELSE LET words      == split(first.text)
               titleWords == slice(words, TitleWords)
               title      == join(titleWords)
           IN  IF Len(words) > TitleWords THEN title \o Ellipsis ELSE title

getLastMessage(conversation) ==
  IF Len(conversation) = 0 THEN <<>>
  ELSE LET lastMessage == conversation[Len(conversation)]
       IN  IF Len(lastMessage.text) > PreviewLen
           THEN substring(lastMessage.text, PreviewLen) \o Ellipsis
           ELSE lastMessage.text

IdsOf(es) == {es[i].id : i \in 1..Len(es)}

\* Array.prototype.findIndex(entry => entry.id === id): 0-based, -1 if none.
findIndex(es, id) ==
  LET hits == {i \in 1..Len(es) : es[i].id = id}
  IN  IF hits = {} THEN -1
      ELSE (CHOOSE i \in hits : \A j \in hits : i <= j) - 1

getEntry(es, id) ==
  LET i == findIndex(es, id) IN IF i = -1 THEN Undefined ELSE es[i + 1]

\* { ...entry, ...updates }
Spread(entry, updates) ==
  LET pick(f) == IF f \in DOMAIN updates THEN updates[f] ELSE entry[f]
  IN  [id |-> pick("id"), title |-> pick("title"), date |-> pick("date"),
       conversation |-> pick("conversation"), audioUrl |-> pick("audioUrl"),
       lastMessage |-> pick("lastMessage")]

\* The entry addEntry builds from its argument at clock value t.
newEntry(conversation, audioUrl, t) ==
  [id           |-> toString(t),
   title        |-> generateTitle(conversation),
   date         |-> toISOString([time |-> t]),
   conversation |-> conversation,
   audioUrl     |-> audioUrl,
   lastMessage  |-> getLastMessage(conversation)]

\* updateEntry: [ret, set, value]; set says whether setEntries(value) is called.
updateEntry(es, id, updates) ==
  LET entryIndex == findIndex(es, id)
  IN  IF entryIndex = -1 THEN [ret |-> FALSE, set |-> FALSE, value |-> es]
      ELSE LET merged == Spread(es[entryIndex + 1], updates)
               final  == IF "conversation" \in DOMAIN updates
                         THEN [merged EXCEPT
                                 !.title = generateTitle(updates.conversation),
                                 !.lastMessage = getLastMessage(updates.conversation)]
                         ELSE merged
           IN  [ret |-> TRUE, set |-> TRUE,
                value |-> [es EXCEPT ![entryIndex + 1] = final]]

\* continueConversation without the recomputation of lastMessage.
continueConversation_StalePreview(es, id, newMessages) ==
  LET entryIndex == findIndex(es, id)
  IN  IF entryIndex = -1 THEN [ret |-> FALSE, set |-> FALSE, value |-> es]
      ELSE [ret |-> TRUE, set |-> TRUE,
            value |-> [es EXCEPT ![entryIndex + 1].conversation =
                                   @ \o newMessages]]

continueConversation(es, id, newMessages) ==
  LET entryIndex == findIndex(es, id)
  IN  IF entryIndex = -1 THEN [ret |-> FALSE, set |-> FALSE, value |-> es]
      ELSE LET updatedConversation == es[entryIndex + 1].conversation \o newMessages
           IN  [ret |-> TRUE, set |-> TRUE,
                value |-> [es EXCEPT ![entryIndex + 1] =
                             [@ EXCEPT !.conversation = updatedConversation,
                                       !.lastMessage = getLastMessage(updatedConversation)]]]

\* deleteEntry without the not-found return.
deleteEntry_NoCheck(es, id) ==
  [ret |-> TRUE, set |-> TRUE, value |-> SelectSeq(es, LAMBDA e : e.id # id)]

\* deleteEntry with the filter's test inverted.
deleteEntry_KeepsMatch(es, id) ==
  LET entryIndex == findIndex(es, id)
  IN  IF entryIndex = -1 THEN [ret |-> FALSE, set |-> FALSE, value |-> es]
      ELSE [ret |-> TRUE, set |-> TRUE,
            value |-> SelectSeq(es, LAMBDA e : e.id = id)]

deleteEntry(es, id) ==
  LET entryIndex == findIndex(es, id)
  IN  IF entryIndex = -1 THEN [ret |-> FALSE, set |-> FALSE, value |-> es]
      ELSE [ret |-> TRUE, set |-> TRUE,
            value |-> SelectSeq(es, LAMBDA e : e.id # id)]

\* searchEntries comparing with the query as typed, not lower-cased.
searchEntries_QueryAsTyped(es, query) ==
  IF trim(query) = <<>> THEN es
  ELSE SelectSeq(es, LAMBDA entry :
         \E k \in 1..Len(entry.conversation) :
           includes(toLowerCase(entry.conversation[k].text), query))

\* searchEntries without the early return for a blank query.
searchEntries_NoBlankReturn(es, query) ==
  LET lowerCaseQuery == toLowerCase(query)
  IN  SelectSeq(es, LAMBDA entry :
        \E k \in 1..Len(entry.conversation) :
          includes(toLowerCase(entry.conversation[k].text), lowerCaseQuery))

searchEntries(es, query) ==
  IF trim(query) = <<>> THEN es
  ELSE LET lowerCaseQuery == toLowerCase(query)
       IN  SelectSeq(es, LAMBDA entry :
             \E k \in 1..Len(entry.conversation) :
               includes(toLowerCase(entry.conversation[k].text), lowerCaseQuery))

----------------------------------------------------------------------------
(* Persistence: JSON.stringify(entries) and the load effect's parse. *)

\* JSON.stringify of one turn: the Date becomes its ISO string (Date.toJSON).
stringifyMessage(msg) ==
  [id |-> msg.id, sender |-> msg.sender, text |-> msg.text,
   timestamp |-> toISOString(msg.timestamp)]

\* JSON.stringify(entries)
stringify(es) ==
  [i \in 1..Len(es) |->
     [es[i] EXCEPT !.conversation =
        [k \in 1..Len(es[i].conversation) |->
           stringifyMessage(es[i].conversation[k])]]]

\* JSON.parse alone: the timestamps stay ISO strings.
processEntries_KeepsStrings(json) == json

\* JSON.parse, then timestamp: new Date(msg.timestamp) on every turn.
processEntries(json) ==
  [i \in 1..Len(json) |->
     [json[i] EXCEPT !.conversation =
        [k \in 1..Len(json[i].conversation) |->
           [json[i].conversation[k] EXCEPT
              !.timestamp = newDate(json[i].conversation[k].timestamp)]]]]

\* A stored text, by what the load effect can see of it: whether it is the
\* empty string, whether JSON.parse accepts it, whether the value is an array,
\* and the value itself.
Stored(kind, json) == [present |-> TRUE, kind |-> kind, json |-> json]

NoItem == [present |-> FALSE, kind |-> "none", json |-> <<>>]   \* getItem: null
Item(json) == Stored("array", json)       \* the text JSON.stringify(json) of an array
EmptyText == Stored("empty", <<>>)        \* ""
NotJson == Stored("text", <<>>)           \* a text JSON.parse rejects
NotAnArray == Stored("object", <<>>)      \* "{}": parses, has no map method

\* if (storedEntries)
Truthy(item) == item.present /\ item.kind # "empty"

\* The try block with entries that have no conversation skipped.
tryLoad_SkipsMalformed(item) ==
  IF item.kind = "array"
  THEN [threw |-> FALSE,
        value |-> processEntries(SelectSeq(item.json,
                     LAMBDA e : "conversation" \in DOMAIN e))]
  ELSE [threw |-> TRUE, value |-> <<>>]

\* The try block of useJournalStorage's load effect: JSON.parse throws a
\* SyntaxError on a text that is not JSON; parsedEntries.map and
\* entry.conversation.map throw a TypeError on a value without map.

tryLoad(item) ==
  IF /\ item.kind = "array"
     /\ \A i \in 1..Len(item.json) : "conversation" \in DOMAIN item.json[i]
  THEN [threw |-> FALSE, value |-> processEntries(item.json)]
  ELSE [threw |-> TRUE, value |-> <<>>]

\* The try block of useLocalStorage's load effect: JSON.parse only.
tryLoadLegacy(item) ==
  IF item.kind = "text" THEN [threw |-> TRUE, value |-> <<>>]
  ELSE [threw |-> FALSE, value |-> item.json]

----------------------------------------------------------------------------
(* Inputs the handlers are called with. *)

Repeat(c, n) == [i \in 1..n |-> c]

TextHi    == <<"H", "i">>
TextAB    == <<"a", " ", "B">>
TextExact == Repeat("x", PreviewLen)
TextLong  == Repeat("x", PreviewLen) \o <<"y">>

Message(id, sender, text, t) ==
  [id |-> toString(id), sender |-> sender, text |-> text,
   timestamp |-> [time |-> t]]

\* (conversation, audioUrl) pairs handed to addEntry.
NewEntryInputs ==
  { <<<<>>, Null>>,
    <<<<Message(7, "user", TextHi, 1001)>>, "blob:1">>,
    <<<<Message(8, "ai", TextAB, 0),
        Message(9, "user", TextLong, MsPerDay + 3723004)>>, Null>> }

\* newMessages handed to continueConversation.
NewMessageInputs ==
  { <<>>,
    <<Message(10, "ai", TextExact, 999)>>,
    <<Message(11, "user", TextLong, 59999), Message(12, "ai", TextAB, 60000)>> }

\* updates (Partial<JournalEntry>) handed to updateEntry.
UpdateInputs ==
  { [conversation |-> <<Message(13, "ai", TextHi, 1000)>>],
    [lastMessage |-> TextAB],
    [title |-> TextHi, audioUrl |-> Null],
    [id |-> toString(1)] }

\* Turn texts around the five-word boundary of generateTitle.
TextTired    == <<"I", " ", "f", "e", "e", "l", " ", "t", "i", "r", "e", "d">>
TextFive     == <<"a", " ", "b", " ", "c", " ", "d", " ", "e">>
TextSix      == <<"a", " ", "b", " ", "c", " ", "d", " ", "e", " ", "f">>
TextSeven    == <<"a", " ", "b", " ", "c", " ", "d", " ", "e", " ", "f", " ", "g">>
TextGap      == <<"a", " ", " ", "b", " ", "c", " ", "d", " ", "e">>
TextTrailing == <<"a", " ", "b", " ", "c", " ", "d", " ", "e", " ">>
TextLeading  == <<" ", "a", " ", "b", " ", "c", " ", "d">>
TextTab      == <<"a", "\t", "b", " ", "c", " ", "d", " ", "e", " ", "f">>

\* (conversation, audioUrl) pairs handed to addEntry when titles are examined.
TitleInputs ==
  { <<<<Message(20, "user", TextTired, 1000)>>, Null>>,
    <<<<>>, Null>>,
    <<<<Message(21, "ai", TextSix, 1000)>>, Null>>,
    <<<<Message(22, "ai", TextSix, 1000), Message(23, "user", TextFive, 2000)>>, Null>>,
    <<<<Message(24, "user", TextSix, 1000), Message(25, "ai", TextHi, 2000)>>, "blob:3">>,
    <<<<Message(26, "user", <<>>, 1000), Message(27, "user", TextSeven, 2000)>>, Null>>,
    <<<<Message(28, "user", TextSeven, 1000)>>, Null>>,
    <<<<Message(29, "user", TextGap, 1000)>>, Null>>,
    <<<<Message(30, "user", TextTrailing, 1000)>>, Null>>,
    <<<<Message(31, "user", TextLeading, 1000)>>, Null>>,
    <<<<Message(32, "user", TextTab, 1000)>>, Null>> }

\* Queries handed to searchEntries.
QueryInputs ==
  { <<>>, <<" ">>, <<"b">>, <<"H", "I">>, <<"x", "Y">>, <<"z">> }


----------------------------------------------------------------------------
(* The store as a state machine. *)

Append1(e) == [kind |-> "append", arg |-> <<e>>]   \* prev => [...prev, e]
SetTo(es)  == [kind |-> "set", arg |-> es]          \* setEntries(es)

ApplyUpdate(prev, u) == IF u.kind = "append" THEN prev \o u.arg ELSE u.arg

RECURSIVE ApplyQueue(_, _)
ApplyQueue(prev, q) ==
  IF q = <<>> THEN prev ELSE ApplyQueue(ApplyUpdate(prev, Head(q)), Tail(q))

NoRead == [present |-> FALSE, kind |-> "unread", json |-> <<>>]

\* No identity change since the last mutating call (or since mount).
NoSwitch == [active |-> FALSE, from |-> NoUser,
             storage |-> [k \in Keys |-> NoItem], entries |-> <<>>]

NoCall ==
  [op |-> "none", id |-> <<>>, arg |-> <<>>, audio |-> Null, ret |-> FALSE,
   before |-> <<>>, applied |-> FALSE, result |-> <<>>]

Call(op, id, arg, audio, ret) ==
  [op |-> op, id |-> id, arg |-> arg, audio |-> audio, ret |-> ret,
   before |-> entries, applied |-> FALSE, result |-> <<>>]

\* Ids handed to the handlers: the ids the caller can know (those of the
\* entries it is shown and those addEntry returned), and one that no entry has.
IdInputs ==
  IdsOf(entries) \cup {returned[i] : i \in 1..Len(returned)} \cup {toString(0)}

\* Handlers run between commits: no effect is pending and the render that an
\* effect or the auth provider asked for has happened.
Idle == effects = <<>> /\ user = renderedUid

Budget == calls + authChanges < MaxEvents

CanCall == Idle /\ Budget
           /\ \A i \in 1..Len(queue) : queue[i].src = "handler"

Enqueue(u, src) == Append(queue, [kind |-> u.kind, arg |-> u.arg, src |-> src])

\* No handleSaveConversation is suspended.
NoSave == [active |-> FALSE, messages |-> <<>>, audioUrl |-> Null,
           isContinuation |-> FALSE, selectedEntryId |-> <<>>,
           initialMessages |-> <<>>, entries |-> <<>>, contConv |-> <<>>]

NoSaveLog == [presses |-> 0, calls |-> 0, failed |-> FALSE, passed |-> <<>>,
              messages |-> <<>>, continuation |-> FALSE, id |-> <<>>,
              start |-> <<>>, returned |-> 0]

NoReflection == [stage |-> "idle", transcript |-> <<>>]

\* The reflection client before any component has called the hook.
InitReflection ==
  /\ aiVariant = "DeepSeek"
  /\ apiKey = TRUE
  /\ aiHook = "unmounted"
  /\ isGenerating = FALSE
  /\ aiError = FALSE
  /\ aiCall = NoReflection
  /\ aiResults = <<>>

InitChat ==
  /\ view = "list"
  /\ selectedEntryId = <<>>
  /\ isContinuation = FALSE
  /\ initialMessages = <<>>
  /\ messages = <<>>
  /\ isAiTyping = FALSE
  /\ isAiGenerating = FALSE
  /\ pendingSave = NoSave
  /\ contConv = <<>>
  /\ saveLog = NoSaveLog

\* The recorder hook's useState / useRef initial values.
InitRecorderOf(variants) ==
  /\ recVariant \in variants
  /\ streams = <<>>
  /\ startsPending = 0
  /\ mediaRecorderRef = 0
  /\ streamRef = 0
  /\ isRecording = FALSE
  /\ audioURL = Null
  /\ recError = FALSE
  /\ recEscaped = FALSE
  /\ afterStop = FALSE
  /\ audioChunks = 0
  /\ afterReset = FALSE

\* useTranscription after mount.  The hook of part_005 creates its one
\* instance in a mount effect; the earlier hook creates one per call.
InitSpeechOf(variants) ==
  /\ srVariant \in variants
  /\ sessions = IF srVariant = "useTranscription" THEN <<"idle">> ELSE <<>>
  /\ isListening = FALSE
  /\ srTranscript = 0
  /\ srError = FALSE
  /\ srUncaught = FALSE
  /\ restartTimer = FALSE
  /\ restarted = FALSE
  /\ stopped = FALSE
  /\ chatRec = "idle"
  /\ listenTimer = 0
  /\ chatStarts = 0
  /\ isReviewing = FALSE

\* user: User | null when null
NullUser == [null |-> TRUE]

NoAuthCall == [op |-> "none", email |-> <<>>, password |-> <<>>,
               user |-> NullUser, session |-> NoItem]

\* AuthProvider before its mount effect, over the sessions a browser may hold.
InitAuthOf(sessionItems) ==
  /\ authUser = NullUser
  /\ authIsLoading = TRUE
  /\ authError = Null
  /\ authSession \in sessionItems
  /\ authMounted = FALSE
  /\ authPending = <<>>
  /\ authCalls = 0
  /\ authLast = NoAuthCall

InitOutside ==
  /\ InitChat /\ InitReflection /\ InitRecorderOf({"useVoiceRecorder"})
  /\ InitSpeechOf({"useTranscription"})
  /\ InitAuthOf({NoItem})

InitStore ==
  /\ entries = <<>>
  /\ user = NoUser
  /\ renderedUid = NoUser
  /\ storage = [k \in Keys |-> NoItem]
  /\ queue = <<>>
  /\ effects = <<"load", "save">>
  /\ now = 1
  /\ calls = 0
  /\ last = NoCall
  /\ returned = <<>>
  /\ authChanges = 0
  /\ origin = {}
  /\ deleted = {}
  /\ serial = <<>>
  /\ switch = NoSwitch
  /\ write = "none"
  /\ uncaught = FALSE
  /\ hook = "useJournalStorage"
  /\ got = NoRead

Init == InitStore /\ InitOutside

\* addEntry({conversation, audioUrl}) as the store sees it.
addEntryCall(conversation, audioUrl) ==
  LET e == newEntry(conversation, audioUrl, now)
  IN  /\ queue' = Enqueue(Append1(e), "handler")
      /\ last' = Call("addEntry", e.id, conversation, audioUrl, TRUE)
      /\ returned' = Append(returned, e.id)
      /\ origin' = origin \cup {<<e.id, renderedUid>>}
      /\ UNCHANGED deleted
      /\ serial' = Append(serial, e)
      /\ calls' = calls + 1
      /\ switch' = NoSwitch
      /\ UNCHANGED <<entries, user, renderedUid, storage, effects, now,
                     authChanges, write, uncaught>>
      /\ UNCHANGED <<hook, got>>

AddEntryOf(inputs) ==
  \E input \in inputs :
    /\ CanCall
    /\ addEntryCall(input[1], input[2])
    /\ UNCHANGED outside

AddEntry == AddEntryOf(NewEntryInputs)

\* The mutation op applied to the result of the mutations before it.
Serially(op, id, arg) ==
  LET r == CASE op = "updateEntry" -> updateEntry(serial, id, arg)
             [] op = "continueConversation" ->
                  continueConversation(serial, id, arg)
             [] op = "deleteEntry" -> deleteEntry(serial, id)
  IN  IF r.set THEN r.value ELSE serial

\* A handler that computes [ret, set, value] from the closure's entries.
Mutate(op, id, arg, r) ==
  /\ queue' = IF r.set THEN Enqueue(SetTo(r.value), "handler") ELSE queue
  /\ last' = Call(op, id, arg, Null, r.ret)
  /\ calls' = calls + 1
  /\ switch' = NoSwitch
  /\ deleted' = IF op = "deleteEntry" /\ r.ret
                THEN deleted \cup {<<id, renderedUid>>} ELSE deleted
  /\ serial' = Serially(op, id, arg)
  /\ UNCHANGED <<entries, user, renderedUid, storage, effects, now,
                 returned, authChanges, origin, write, uncaught>>
  /\ UNCHANGED <<hook, got>>

UpdateEntry ==
  \E id \in IdInputs, updates \in UpdateInputs :
    /\ CanCall
    /\ Mutate("updateEntry", id, updates, updateEntry(entries, id, updates))
    /\ UNCHANGED outside

ContinueConversation ==
  \E id \in IdInputs, newMessages \in NewMessageInputs :
    /\ CanCall
    /\ Mutate("continueConversation", id, newMessages,
              continueConversation(entries, id, newMessages))
    /\ UNCHANGED outside

DeleteEntry ==
  \E id \in IdInputs :
    /\ CanCall
    /\ Mutate("deleteEntry", id, <<>>, deleteEntry(entries, id))
    /\ UNCHANGED outside

SearchEntries ==
  \E query \in QueryInputs :
    /\ CanCall
    /\ last' = [Call("searchEntries", <<>>, query, Null, TRUE)
                  EXCEPT !.result = searchEntries(entries, query)]
    /\ calls' = calls + 1
    /\ UNCHANGED <<entries, user, renderedUid, storage, queue, effects, now,
                   returned, authChanges, origin, deleted, serial, switch,
                 write, uncaught>>
    /\ UNCHANGED <<hook, got>> /\ UNCHANGED outside

\* Date.now() advances (it is read by handlers only, so between commits).
Tick ==
  /\ Idle
  /\ now < MaxClock
  /\ now' = now + 1
  /\ UNCHANGED <<entries, user, renderedUid, storage, queue, effects, calls,
                 last, returned, authChanges, origin, deleted, serial, switch,
                 write, uncaught>>
  /\ UNCHANGED <<hook, got>> /\ UNCHANGED outside

\* onAuthStateChanged: setUser(...) in the auth provider.
AuthChange ==
  \E u \in Users :
    /\ hook = "useJournalStorage"       \* the hook that reads useAuth()
    /\ Idle /\ queue = <<>>
    /\ Budget
    /\ u # user
    /\ user' = u
    /\ authChanges' = authChanges + 1
    /\ switch' = [active |-> TRUE, from |-> user, storage |-> storage,
                  entries |-> entries]
    /\ UNCHANGED <<entries, renderedUid, storage, queue, effects, now, calls,
                   last, returned, origin, deleted, serial, write, uncaught>>
    /\ UNCHANGED <<hook, got>> /\ UNCHANGED outside

\* A render commits: queued updates are applied, and the effects whose
\* dependencies ([user?.uid], [entries, user?.uid]) changed are scheduled.
Render ==
  /\ effects = <<>>
  /\ queue # <<>> \/ user # renderedUid
  /\ entries' = ApplyQueue(entries, queue)
  /\ queue' = <<>>
  /\ renderedUid' = user
  /\ effects' = (IF user # renderedUid THEN <<"load">> ELSE <<>>) \o <<"save">>
  /\ last' = IF last.op \notin {"none", "searchEntries"} /\ last.ret
                /\ ~last.applied
             THEN [last EXCEPT !.applied = TRUE] ELSE NoCall
  /\ write' = "none"
  /\ UNCHANGED <<user, storage, now, calls, returned, authChanges, origin,
                 deleted, serial,
                 switch, uncaught>>
  /\ UNCHANGED <<hook, got>> /\ UNCHANGED outside

\* The load effect with the stored text ignored.
LoadEffect_IgnoresSlot ==
  /\ hook = "useJournalStorage"
  /\ effects # <<>> /\ Head(effects) = "load"
  /\ queue' = Enqueue(SetTo(<<>>), "effect")
  /\ serial' = <<>>
  /\ got' = storage[getStorageKey(renderedUid)]
  /\ effects' = Tail(effects)
  /\ UNCHANGED <<entries, user, renderedUid, storage, now, calls, last,
                 returned, authChanges, origin, deleted, switch, write, uncaught>>
  /\ UNCHANGED hook /\ UNCHANGED outside

\* useEffect(() => { ... }, [user?.uid]): load the current identity's slot.
LoadEffect ==
  /\ hook = "useJournalStorage"
  /\ effects # <<>> /\ Head(effects) = "load"
  /\ LET storedEntries == storage[getStorageKey(renderedUid)]
         try == tryLoad(storedEntries)
     IN  /\ queue' = IF Truthy(storedEntries)
                      THEN IF try.threw
                           THEN Enqueue(SetTo(<<>>), "effect")    \* catch
                           ELSE Enqueue(SetTo(try.value), "effect")
                      ELSE Enqueue(SetTo(<<>>), "effect")
         /\ serial' = IF Truthy(storedEntries) /\ ~try.threw
                       THEN try.value ELSE <<>>
         /\ got' = storedEntries
  /\ effects' = Tail(effects)
  /\ UNCHANGED <<entries, user, renderedUid, storage, now, calls, last,
                 returned, authChanges, origin, deleted, switch, write, uncaught>>
  /\ UNCHANGED hook /\ UNCHANGED outside

\* useLocalStorage, useEffect(() => { ... }, []): the earlier store's load.
LegacyLoadEffect ==
  /\ hook = "useLocalStorage"
  /\ effects # <<>> /\ Head(effects) = "load"
  /\ LET storedEntries == storage[LegacyKey]
         try == tryLoadLegacy(storedEntries)
     IN  /\ queue' = IF Truthy(storedEntries) /\ ~try.threw
                      THEN Enqueue(SetTo(try.value), "effect")
                      ELSE queue                                 \* catch logs
         /\ serial' = IF Truthy(storedEntries) /\ ~try.threw
                       THEN try.value ELSE serial
         /\ got' = storedEntries
  /\ effects' = Tail(effects)
  /\ UNCHANGED <<entries, user, renderedUid, storage, now, calls, last,
                 returned, authChanges, origin, deleted, switch, write, uncaught>>
  /\ UNCHANGED hook /\ UNCHANGED outside

\* useLocalStorage, useEffect(() => { ... }, [entries]): the earlier store's
\* save.  Its entries hold strings and null only (no Date is ever built), so
\* the array JSON.stringify writes parses back to the same value.
LegacySaveEffect ==
  /\ hook = "useLocalStorage"
  /\ effects # <<>> /\ Head(effects) = "save"
  /\ storage' = [storage EXCEPT ![LegacyKey] = Item(entries)]
  /\ write' = "stored"
  /\ effects' = Tail(effects)
  /\ UNCHANGED <<entries, user, renderedUid, queue, now, calls, last,
                 returned, authChanges, origin, deleted, serial, switch, uncaught>>
  /\ UNCHANGED <<hook, got>> /\ UNCHANGED outside

\* The save effect writing the collection the handler saw, not the committed one.
SaveEffect_WritesClosure ==
  /\ hook = "useJournalStorage"
  /\ effects # <<>> /\ Head(effects) = "save"
  /\ storage' = [storage EXCEPT ![getStorageKey(renderedUid)] =
                   Item(stringify(last.before))]
  /\ write' = "stored"
  /\ effects' = Tail(effects)
  /\ UNCHANGED <<entries, user, renderedUid, queue, now, calls, last,
                 returned, authChanges, origin, deleted, serial, switch, uncaught>>
  /\ UNCHANGED <<hook, got>> /\ UNCHANGED outside

\* useEffect(() => { ... }, [entries, user?.uid]): write the whole collection.
\* This is the effect when setItem returns.
SaveEffect ==
  /\ hook = "useJournalStorage"
  /\ effects # <<>> /\ Head(effects) = "save"
  /\ storage' = [storage EXCEPT ![getStorageKey(renderedUid)] =
                   Item(stringify(entries))]
  /\ write' = "stored"
  /\ effects' = Tail(effects)
  /\ UNCHANGED <<entries, user, renderedUid, queue, now, calls, last,
                 returned, authChanges, origin, deleted, serial, switch, uncaught>>
  /\ UNCHANGED <<hook, got>> /\ UNCHANGED outside

\* The save effect with no catch around setItem.
SaveEffectThrows_NoCatch ==
  /\ hook = "useJournalStorage"
  /\ effects # <<>> /\ Head(effects) = "save"
  /\ write' = "threw"
  /\ uncaught' = TRUE
  /\ effects' = Tail(effects)
  /\ UNCHANGED <<entries, user, renderedUid, storage, queue, now, calls, last,
                 returned, authChanges, origin, deleted, serial, switch>>
  /\ UNCHANGED <<hook, got>> /\ UNCHANGED outside

\* The save effect when setItem throws (the quota is exceeded, or storage is
\* denied): nothing is stored, the catch logs the error and the effect ends.
SaveEffectThrows ==
  /\ hook = "useJournalStorage"
  /\ effects # <<>> /\ Head(effects) = "save"
  /\ write' = "threw"
  /\ effects' = Tail(effects)
  /\ UNCHANGED <<entries, user, renderedUid, storage, queue, now, calls, last,
                 returned, authChanges, origin, deleted, serial, switch, uncaught>>
  /\ UNCHANGED <<hook, got>> /\ UNCHANGED outside

Next ==
  \/ AddEntry
  \/ UpdateEntry
  \/ ContinueConversation
  \/ DeleteEntry
  \/ SearchEntries
  \/ Tick
  \/ AuthChange
  \/ Render
  \/ LoadEffect
  \/ SaveEffect

Spec == Init /\ [][Next]_vars

\* The store when only entries are added, with turn texts of few and many
\* words.
AddEntryWords == AddEntryOf(TitleInputs)

NextTitle ==
  \/ AddEntryWords
  \/ Tick
  \/ Render
  \/ LoadEffect
  \/ SaveEffect

SpecTitle == Init /\ [][NextTitle]_vars

\* The store over a localStorage whose setItem may throw.
NextQuota == Next \/ SaveEffectThrows

SpecQuota == Init /\ [][NextQuota]_vars

----------------------------------------------------------------------------
(* The store seen from a committed collection.  SpecPure starts right after *)
(* the commit of a render under identity u1 whose collection is any         *)
(* sequence of at most MaxLen entries that addEntry builds (ids may repeat, *)
(* as they do when the clock has not advanced), with the save effect still  *)
(* to run; it then runs the save effect and calls searchEntries.            *)

\* A conversation whose timestamps sit on second, minute and day boundaries.
BoundaryConversation ==
  <<Message(14, "user", <<"I", " ", "b">>, MsPerDay - 1),
    Message(15, "ai", TextExact, 59999),
    Message(16, "user", <<"B", "y", "e">>, 24 * MsPerDay + 3600000)>>

EntryPool ==
  {newEntry(input[1], input[2], t) :
     input \in NewEntryInputs \cup {<<BoundaryConversation, "blob:2">>},
     t \in 1..MaxClock}

Collections == UNION {[1..n -> EntryPool] : n \in 0..MaxLen}

InitPure ==
  /\ entries \in Collections
  /\ user = "u1"
  /\ renderedUid = "u1"
  /\ storage = [k \in Keys |->
                  IF k = getStorageKey("u2") THEN NoItem ELSE Item(<<>>)]
  /\ queue = <<>>
  /\ effects = <<"save">>
  /\ now = MaxClock
  /\ calls = 0
  /\ authChanges = 0
  /\ last = NoCall
  /\ returned = <<>>
  /\ origin = {}
  /\ deleted = {}
  /\ serial = entries
  /\ switch = NoSwitch
  /\ write = "none"
  /\ uncaught = FALSE
  /\ hook = "useJournalStorage"
  /\ got = NoRead
  /\ InitOutside

NextPure ==
  \/ SaveEffect
  \/ SearchEntries

SpecPure == InitPure /\ [][NextPure]_vars

----------------------------------------------------------------------------
(* JournalApp with the ChatInterface of src/unnamed/part_001 over the       *)
(* store.  State setters of the two components are taken as committed when  *)
(* the handler that called them ends; the store keeps its queue and         *)
(* effects.  A handler suspended at an await keeps the values its closure   *)
(* captured.                                                                *)

\* selectedEntryId === null; the code tests it for truthiness only, and no
\* id is the empty string.
NullId == <<>>

TypedTexts == {TextHi}            \* what the user sends
ReplyText == TextAB               \* what generateReflection answers a turn with
SummaryText == TextHi             \* what it answers the summary prompt with
AudioUrls == {Null, "blob:1"}     \* useRecorder().audioURL

\* The text of the turn processUserMessage's catch appends.
ApologyText ==
  <<"I", " ", "a", "p", "o", "l", "o", "g", "i", "z", "e", ",", " ", "b",
    "u", "t", " ", "I", "'", "m", " ", "h", "a", "v", "i", "n", "g", " ",
    "t", "r", "o", "u", "b", "l", "e", " ", "r", "e", "s", "p", "o", "n",
    "d", "i", "n", "g", " ", "r", "i", "g", "h", "t", " ", "n", "o", "w",
    ".", " ", "C", "o", "u", "l", "d", " ", "y", "o", "u", " ", "t", "r",
    "y", " ", "r", "e", "p", "h", "r", "a", "s", "i", "n", "g", " ", "o",
    "r", " ", "a", "s", "k", "i", "n", "g", " ", "s", "o", "m", "e", "t",
    "h", "i", "n", "g", " ", "e", "l", "s", "e", "?">>

\* The text generateReflection's own catch returns (DeepSeekFallback).
FallbackText ==
  <<"I", " ", "m", "i", "s", "s", "e", "d", " ", "t", "h", "a", "t", " ",
    "l", "a", "s", "t", " ", "p", "a", "r", "t", ".", " ", "C", "o", "u",
    "l", "d", " ", "y", "o", "u", " ", "s", "a", "y", " ", "i", "t", " ",
    "a", "g", "a", "i", "n", "?">>

\* ChatInterface mounts: useState(initialMessages), useState(false).
Mount(initial) ==
  /\ messages' = initial
  /\ isAiTyping' = FALSE
  /\ isAiGenerating' = FALSE

Unmount ==
  /\ messages' = <<>>
  /\ isAiTyping' = FALSE
  /\ isAiGenerating' = FALSE

\* The user is looking at a committed, settled store.
AtRest == Idle /\ queue = <<>>

handleStartNewChat ==
  /\ view = "list" /\ AtRest
  /\ selectedEntryId' = NullId
  /\ initialMessages' = <<>>
  /\ isContinuation' = FALSE
  /\ view' = "chat"
  /\ Mount(<<>>)
  /\ contConv' = <<>>
  /\ UNCHANGED <<pendingSave, saveLog, storeVars,
                 reflectionVars, recorderVars, speechVars, authVars>>

handleSelectEntry ==
  \E id \in IdsOf(entries) :
    /\ view = "list" /\ AtRest
    /\ selectedEntryId' = id
    /\ view' = "view"
    /\ Mount(initialMessages)
    /\ UNCHANGED <<isContinuation, initialMessages, pendingSave, contConv,
                   saveLog, storeVars,
                 reflectionVars, recorderVars, speechVars, authVars>>

handleContinueConversation ==
  \E id \in IdsOf(entries) :
    LET entry == getEntry(entries, id)
    IN  /\ view = "list" /\ AtRest
        /\ entry # Undefined
        /\ selectedEntryId' = id
        /\ initialMessages' = entry.conversation
        /\ isContinuation' = TRUE
        /\ view' = "chat"
        /\ Mount(entry.conversation)
        /\ contConv' = entry.conversation
        /\ UNCHANGED <<pendingSave, saveLog, storeVars,
                 reflectionVars, recorderVars, speechVars, authVars>>

\* processUserMessage with no test of isAiTyping before it.
SendMessage_WhileTyping ==
  \E text \in TypedTexts :
    /\ view # "list" /\ AtRest
    /\ Len(messages) < MaxTurns
    /\ messages' = Append(messages, Message(now, "user", text, now))
    /\ isAiTyping' = TRUE
    /\ UNCHANGED <<view, selectedEntryId, isContinuation, initialMessages,
                   isAiGenerating, pendingSave, contConv, saveLog, storeVars,
                 reflectionVars, recorderVars, speechVars, authVars>>

\* processUserMessage up to its await: the user's turn is appended.
SendMessage ==
  \E text \in TypedTexts :
    /\ view # "list" /\ AtRest
    /\ ~isAiTyping
    /\ Len(messages) < MaxTurns
    /\ messages' = Append(messages, Message(now, "user", text, now))
    /\ isAiTyping' = TRUE
    /\ UNCHANGED <<view, selectedEntryId, isContinuation, initialMessages,
                   isAiGenerating, pendingSave, contConv, saveLog, storeVars,
                 reflectionVars, recorderVars, speechVars, authVars>>

\* processUserMessage after its await: the reply is appended.
ReplyArrives ==
  /\ view # "list" /\ AtRest
  /\ isAiTyping
  /\ messages' = Append(messages, Message(now + 1, "ai", ReplyText, now))
  /\ isAiTyping' = FALSE
  /\ UNCHANGED <<view, selectedEntryId, isContinuation, initialMessages,
                 isAiGenerating, pendingSave, contConv, saveLog, storeVars,
                 reflectionVars, recorderVars, speechVars, authVars>>

\* processUserMessage's catch and finally: the apology is appended.
ReplyFails ==
  /\ view # "list" /\ AtRest
  /\ isAiTyping
  /\ messages' = Append(messages, Message(now + 1, "ai", ApologyText, now))
  /\ isAiTyping' = FALSE
  /\ UNCHANGED <<view, selectedEntryId, isContinuation, initialMessages,
                 isAiGenerating, pendingSave, contConv, saveLog, storeVars,
                 reflectionVars, recorderVars, speechVars, authVars>>

\* The whole conversation passed on as the new turns.
newTurns_Whole(msgs, initial) == msgs

\* messages.slice(initialMessages.length)
newTurns(msgs, initial) == SubSeq(msgs, Len(initial) + 1, Len(msgs))

\* JournalApp.handleSaveConversation(msgs, audioUrl), run with the values c
\* that the closure handed to ChatInterface captured (continueConversation
\* among them, which reads the entries of that render).  failed: the summary
\* could not be generated; press: 1 when Save was activated in this step.
handleSaveConversation(msgs, audioUrl, c, failed, press) ==
  /\ IF c.isContinuation /\ c.selectedEntryId # NullId
     THEN LET newMessages == newTurns(msgs, c.initialMessages)
          IN  Mutate("continueConversation", c.selectedEntryId, newMessages,
                     continueConversation(c.entries, c.selectedEntryId,
                                          newMessages))
     ELSE addEntryCall(msgs, audioUrl)
  /\ isContinuation' = FALSE
  /\ initialMessages' = <<>>
  /\ view' = "list"
  /\ Unmount
  /\ contConv' = <<>>
  /\ saveLog' = [presses |-> saveLog.presses + press,
                 calls |-> saveLog.calls + 1,
                 failed |-> failed, passed |-> msgs, messages |-> c.messages,
                 continuation |-> (c.isContinuation /\ c.selectedEntryId # NullId),
                 id |-> c.selectedEntryId, start |-> c.contConv,
                 returned |-> Len(returned)]
  /\ UNCHANGED <<selectedEntryId, reflectionVars, recorderVars, speechVars,
                 authVars>>

\* ChatInterface.handleSaveConversation up to its return or its await.  One
\* save at a time is kept suspended.
SavePressed ==
  \E audioUrl \in AudioUrls :
    LET c == [active |-> TRUE, messages |-> messages, audioUrl |-> audioUrl,
              isContinuation |-> isContinuation,
              selectedEntryId |-> selectedEntryId,
              initialMessages |-> initialMessages,
              entries |-> entries, contConv |-> contConv]
    IN  /\ view # "list" /\ CanCall
        /\ ~isAiGenerating
        /\ ~pendingSave.active
        /\ saveLog.presses < MaxSaves
        /\ IF Len(messages) <= 1
           THEN /\ handleSaveConversation(messages, audioUrl, c, FALSE, 1)
                /\ UNCHANGED pendingSave
           ELSE /\ isAiGenerating' = TRUE
                /\ pendingSave' = c
                /\ saveLog' = [saveLog EXCEPT !.presses = @ + 1]
                /\ UNCHANGED <<view, selectedEntryId, isContinuation,
                               initialMessages, messages, isAiTyping,
                               contConv, storeVars,
                 reflectionVars, recorderVars, speechVars, authVars>>

\* generateReflection resolved with a summary: the summary turn is appended
\* and passed on.
SummaryResolves ==
  LET c == pendingSave
      summaryMessage == Message(now, "ai", SummaryText, now)
  IN  /\ c.active /\ CanCall
      /\ handleSaveConversation(Append(c.messages, summaryMessage), c.audioUrl,
                                c, FALSE, 0)
      /\ pendingSave' = NoSave

\* The request for the summary failed: generateReflection's own catch
\* resolves with its fallback text, which is appended as the summary turn.
SummaryFails ==
  LET c == pendingSave
      summaryMessage == Message(now, "ai", FallbackText, now)
  IN  /\ c.active /\ CanCall
      /\ handleSaveConversation(Append(c.messages, summaryMessage), c.audioUrl,
                                c, TRUE, 0)
      /\ pendingSave' = NoSave

\* generateReflection rejected: catch passes the turns on without a summary.
SummaryRejects ==
  LET c == pendingSave
  IN  /\ c.active /\ CanCall
      /\ handleSaveConversation(c.messages, c.audioUrl, c, TRUE, 0)
      /\ pendingSave' = NoSave

\* onCancel
Cancel ==
  /\ view # "list" /\ AtRest
  /\ view' = "list"
  /\ isContinuation' = FALSE
  /\ initialMessages' = <<>>
  /\ Unmount
  /\ contConv' = <<>>
  /\ UNCHANGED <<selectedEntryId, pendingSave, saveLog, storeVars,
                 reflectionVars, recorderVars, speechVars, authVars>>

\* Store steps while the application runs (the clock stands still: every id
\* and timestamp made is that of one millisecond).
StoreStep == Render \/ LoadEffect \/ SaveEffect

SignedIn(u) ==
  /\ entries = <<>>
  /\ user = u
  /\ renderedUid = u
  /\ storage = [k \in Keys |-> NoItem]
  /\ queue = <<>>
  /\ effects = <<"load", "save">>
  /\ now = 1
  /\ calls = 0
  /\ last = NoCall
  /\ returned = <<>>
  /\ authChanges = 0
  /\ origin = {}
  /\ deleted = {}
  /\ serial = <<>>
  /\ switch = NoSwitch
  /\ write = "none"
  /\ uncaught = FALSE
  /\ hook = "useJournalStorage"
  /\ got = NoRead

InitApp == SignedIn("u1") /\ InitOutside

NextApp ==
  \/ handleStartNewChat
  \/ handleSelectEntry
  \/ handleContinueConversation
  \/ SendMessage
  \/ ReplyArrives
  \/ ReplyFails
  \/ SavePressed
  \/ SummaryResolves
  \/ SummaryFails
  \/ SummaryRejects
  \/ Cancel
  \/ StoreStep

SpecApp == InitApp /\ [][NextApp]_vars

----------------------------------------------------------------------------
(* The reflection client: useAIReflection of src/components/AIReflection    *)
(* (DeepSeek over fetch) and of src/unnamed/part_004 (Gemini over the SDK). *)
(* A component calls the hook, then calls generateReflection one call at a  *)
(* time; the remote side answers each request in one of RemoteOutcomes.     *)

DeepSeekFallback == "I missed that last part. Could you say it again?"
GeminiFallback == "I'm here to listen whenever you're ready to share more."

Fallback(variant) ==
  IF variant = "DeepSeek" THEN DeepSeekFallback ELSE GeminiFallback

Transcripts == {<<>>, <<" ">>, TextHi}

\* What comes back for a request: the promise rejects, the status is not OK,
\* the reply text is empty, or there is a reply.
RemoteOutcomes == {"network error", "not ok", "empty reply", "reply"}

RemoteReply == "Tell me more about that."

\* The hook body runs (a component renders).  The Gemini variant reads the
\* key in the hook body and throws there when it is missing.
UseAIReflection ==
  /\ aiHook = "unmounted"
  /\ aiHook' = IF aiVariant = "Gemini" /\ ~apiKey THEN "threw" ELSE "mounted"
  /\ UNCHANGED <<aiVariant, apiKey, isGenerating, aiError, aiCall, aiResults>>
  /\ UNCHANGED <<storeVars, appVars, recorderVars, speechVars, authVars>>

\* A call that ends in the catch block: setError, return the fallback,
\* finally setIsGenerating(false).
Caught(transcript, why) ==
  /\ aiError' = TRUE
  /\ isGenerating' = FALSE
  /\ aiCall' = NoReflection
  /\ aiResults' = Append(aiResults,
       [how |-> "resolved", value |-> Fallback(aiVariant),
        transcript |-> transcript, cause |-> why])

\* A call that returns from the try block; finally setIsGenerating(false).
Returned(transcript, text, why) ==
  /\ aiError' = FALSE
  /\ isGenerating' = FALSE
  /\ aiCall' = NoReflection
  /\ aiResults' = Append(aiResults,
       [how |-> "resolved", value |-> text, transcript |-> transcript,
        cause |-> why])

\* generateReflection(transcript) up to its first await, or to its end when
\* it throws before: DeepSeek checks the key, Gemini checks the transcript.
GenerateReflection ==
  \E transcript \in Transcripts :
    /\ aiHook = "mounted"
    /\ aiCall.stage = "idle"
    /\ Len(aiResults) < MaxReflections
    /\ IF aiVariant = "DeepSeek" /\ ~apiKey
       THEN Caught(transcript, "no key")
       ELSE IF aiVariant = "Gemini" /\ trim(transcript) = <<>>
       THEN Caught(transcript, "empty input")
       ELSE /\ isGenerating' = TRUE
            /\ aiError' = FALSE
            /\ aiCall' = [stage |-> "awaiting", transcript |-> transcript]
            /\ UNCHANGED aiResults
    /\ UNCHANGED <<aiVariant, apiKey, aiHook>>
    /\ UNCHANGED <<storeVars, appVars, recorderVars, speechVars, authVars>>

\* generateReflection after its await.  DeepSeek returns
\* data.choices[0].message.content whatever it is; Gemini throws on an
\* empty text.
RemoteAnswers ==
  \E outcome \in RemoteOutcomes :
    /\ aiCall.stage = "awaiting"
    /\ IF outcome \in {"network error", "not ok"}
       THEN Caught(aiCall.transcript, outcome)
       ELSE IF outcome = "empty reply"
       THEN IF aiVariant = "Gemini"
            THEN Caught(aiCall.transcript, outcome)
            ELSE Returned(aiCall.transcript, "", outcome)
       ELSE Returned(aiCall.transcript, RemoteReply, outcome)
    /\ UNCHANGED <<aiVariant, apiKey, aiHook>>
    /\ UNCHANGED <<storeVars, appVars, recorderVars, speechVars, authVars>>

InitReflect ==
  /\ InitStore /\ InitChat /\ InitRecorderOf({"useVoiceRecorder"})
  /\ InitSpeechOf({"useTranscription"})
  /\ InitAuthOf({NoItem})
  /\ aiVariant \in {"DeepSeek", "Gemini"}
  /\ apiKey \in BOOLEAN
  /\ aiHook = "unmounted"
  /\ isGenerating = FALSE
  /\ aiError = FALSE
  /\ aiCall = NoReflection
  /\ aiResults = <<>>

NextReflect ==
  \/ UseAIReflection
  \/ GenerateReflection
  \/ RemoteAnswers

SpecReflect == InitReflect /\ [][NextReflect]_vars

----------------------------------------------------------------------------
(* Audio capture: useVoiceRecorder of src/unnamed/part_003 (l.411-513, and  *)
(* the earlier one at l.526-588) and useRecorder of src/unnamed/part_005.   *)
(* Each getUserMedia that resolves yields one stream with one track and one *)
(* MediaRecorder on it.  State setters are taken as committed when the      *)
(* handler ends, so every call sees the latest isRecording / mediaRecorder. *)

RecorderVariants == {"useVoiceRecorder", "useVoiceRecorderEarlier", "useRecorder"}

\* URL.createObjectURL for the blob of the i-th stream's recorder.
BlobUrl(i) == "blob:rec" \o <<"0", "1", "2", "3", "4", "5", "6", "7", "8", "9">>[i + 1]

NewStream == [live |-> TRUE, state |-> "recording", stopEvent |-> FALSE,
              data |-> FALSE]

\* track.stop() on the tracks of stream i (i = 0: no stream to stop).
StopTracks(ss, i) == IF i = 0 THEN ss ELSE [ss EXCEPT ![i].live = FALSE]

\* MediaRecorder.stop() on a recording recorder: inactive, stop event queued.
StopRecorder(ss, i) == [ss EXCEPT ![i].state = "inactive", ![i].stopEvent = TRUE]

\* startRecording up to await navigator.mediaDevices.getUserMedia(...).
StartRecording ==
  /\ Len(streams) + startsPending < MaxStreams
  /\ startsPending' = startsPending + 1
  /\ afterStop' = FALSE
  /\ afterReset' = FALSE
  /\ UNCHANGED <<recVariant, streams, mediaRecorderRef, streamRef, isRecording,
                 audioURL, recError, recEscaped, audioChunks>>
  /\ UNCHANGED <<storeVars, appVars, reflectionVars, speechVars, authVars>>

\* getUserMedia resolved: the rest of startRecording's try block.
GetUserMediaResolves ==
  LET i == Len(streams) + 1
  IN  /\ startsPending > 0
      /\ startsPending' = startsPending - 1
      /\ streams' = Append(streams, NewStream)
      /\ mediaRecorderRef' = i
      /\ streamRef' = IF recVariant = "useVoiceRecorder" THEN i ELSE streamRef
      /\ isRecording' = TRUE
      /\ audioURL' = IF recVariant = "useRecorder" THEN Null ELSE audioURL
      /\ recError' = IF recVariant = "useRecorder" THEN recError ELSE FALSE
      /\ afterStop' = FALSE
      /\ audioChunks' = IF recVariant = "useRecorder" THEN audioChunks ELSE 0
      /\ afterReset' = FALSE
      /\ UNCHANGED <<recVariant, recEscaped>>
      /\ UNCHANGED <<storeVars, appVars, reflectionVars, speechVars, authVars>>

\* getUserMedia rejected: startRecording's catch block.
GetUserMediaRejects ==
  /\ startsPending > 0
  /\ startsPending' = startsPending - 1
  /\ recError' = IF recVariant = "useRecorder" THEN recError ELSE TRUE
  /\ isRecording' = IF recVariant = "useVoiceRecorder" THEN FALSE ELSE isRecording
  /\ recEscaped' = IF recVariant = "useRecorder" THEN TRUE ELSE recEscaped
  /\ UNCHANGED <<recVariant, streams, mediaRecorderRef, streamRef, audioURL,
                 afterStop, audioChunks, afterReset>>
  /\ UNCHANGED <<storeVars, appVars, reflectionVars, speechVars, authVars>>

\* ondataavailable with event.data.size > 0, while recording or with the
\* data gathered up to stop(), before the stop event.  useRecorder pushes to
\* an array local to the start; the others push to audioChunksRef.current.
DataAvailable ==
  \E i \in 1..Len(streams) :
    /\ streams[i].state = "recording" \/ streams[i].stopEvent
    /\ ~streams[i].data
    /\ streams' = [streams EXCEPT ![i].data = TRUE]
    /\ audioChunks' = IF recVariant = "useRecorder" THEN audioChunks
                      ELSE audioChunks + 1
    /\ UNCHANGED <<recVariant, startsPending, mediaRecorderRef, streamRef,
                   isRecording, audioURL, recError, recEscaped, afterStop,
                   afterReset>>
    /\ UNCHANGED <<storeVars, appVars, reflectionVars, speechVars, authVars>>

\* The browser ends a recording on its own (a recording error): the recorder
\* goes inactive and its stop event is queued.
RecorderFails ==
  \E i \in 1..Len(streams) :
    /\ streams[i].state = "recording"
    /\ streams' = StopRecorder(streams, i)
    /\ UNCHANGED <<recVariant, startsPending, mediaRecorderRef, streamRef,
                   isRecording, audioURL, recError, recEscaped, afterStop,
                   audioChunks, afterReset>>
    /\ UNCHANGED <<storeVars, appVars, reflectionVars, speechVars, authVars>>

\* useVoiceRecorder.stopRecording: mediaRecorderRef.current.stop() throws an
\* InvalidStateError on an inactive recorder, and the catch skips the tracks.
stopVoiceRecorder(ss, ref, sref, rec) ==
  IF ref # 0 /\ rec
  THEN IF ss[ref].state = "inactive"
       THEN [streams |-> ss, isRecording |-> FALSE, error |-> TRUE, threw |-> FALSE]
       ELSE [streams |-> StopTracks(StopRecorder(ss, ref), sref),
             isRecording |-> FALSE, error |-> FALSE, threw |-> FALSE]
  ELSE [streams |-> ss, isRecording |-> rec, error |-> FALSE, threw |-> FALSE]

\* The earlier useVoiceRecorder.stopRecording: no try; the tracks are those of
\* mediaRecorderRef.current.stream.
stopVoiceRecorderEarlier(ss, ref, rec) ==
  IF ref # 0 /\ rec
  THEN IF ss[ref].state = "inactive"
       THEN [streams |-> ss, isRecording |-> rec, error |-> FALSE, threw |-> TRUE]
       ELSE [streams |-> StopTracks(StopRecorder(ss, ref), ref),
             isRecording |-> FALSE, error |-> FALSE, threw |-> FALSE]
  ELSE [streams |-> ss, isRecording |-> rec, error |-> FALSE, threw |-> FALSE]

\* useRecorder.stopRecording: stop() only on a recorder that is not inactive;
\* the tracks are stopped by onstop.
stopRecorder(ss, ref, rec) ==
  IF ref # 0 /\ ss[ref].state # "inactive"
  THEN [streams |-> StopRecorder(ss, ref), isRecording |-> FALSE,
        error |-> FALSE, threw |-> FALSE]
  ELSE [streams |-> ss, isRecording |-> rec, error |-> FALSE, threw |-> FALSE]

StopRecording ==
  LET r == CASE recVariant = "useVoiceRecorder" ->
                  stopVoiceRecorder(streams, mediaRecorderRef, streamRef, isRecording)
             [] recVariant = "useVoiceRecorderEarlier" ->
                  stopVoiceRecorderEarlier(streams, mediaRecorderRef, isRecording)
             [] OTHER ->
                  stopRecorder(streams, mediaRecorderRef, isRecording)
  IN  /\ streams' = r.streams
      /\ isRecording' = r.isRecording
      /\ recError' = (recError \/ r.error)
      /\ recEscaped' = (recEscaped \/ r.threw)
      /\ afterStop' = TRUE
      /\ afterReset' = IF r.streams # streams THEN FALSE ELSE afterReset
      /\ UNCHANGED <<recVariant, startsPending, mediaRecorderRef, streamRef,
                     audioURL, audioChunks>>
      /\ UNCHANGED <<storeVars, appVars, reflectionVars, speechVars, authVars>>

\* The recorder's stop event is dispatched: onstop builds the blob URL, and
\* in useRecorder stops the tracks of the stream it closed over.
StopEvent ==
  \E i \in 1..Len(streams) :
    /\ streams[i].stopEvent
    /\ streams' = IF recVariant = "useRecorder"
                  THEN [streams EXCEPT ![i].stopEvent = FALSE, ![i].live = FALSE]
                  ELSE [streams EXCEPT ![i].stopEvent = FALSE]
    /\ audioURL' = BlobUrl(i)
    /\ UNCHANGED <<recVariant, startsPending, mediaRecorderRef, streamRef,
                   isRecording, recError, recEscaped, afterStop, audioChunks,
                   afterReset>>
    /\ UNCHANGED <<storeVars, appVars, reflectionVars, speechVars, authVars>>

\* resetRecording: setAudioURL(null); audioChunksRef.current = []
resetRecording(url) == [audioURL |-> Null, audioChunks |-> 0]

\* useVoiceRecorder.resetRecording (useRecorder has none).
ResetRecording ==
  /\ recVariant # "useRecorder"
  /\ audioURL' = resetRecording(audioURL).audioURL
  /\ audioChunks' = resetRecording(audioURL).audioChunks
  /\ afterReset' = (/\ startsPending = 0
                    /\ \A i \in 1..Len(streams) : streams[i].state # "recording")
  /\ UNCHANGED <<recVariant, streams, startsPending, mediaRecorderRef,
                 streamRef, isRecording, recError, recEscaped, afterStop>>
  /\ UNCHANGED <<storeVars, appVars, reflectionVars, speechVars, authVars>>

InitRecorder ==
  /\ InitStore /\ InitChat /\ InitReflection
  /\ InitSpeechOf({"useTranscription"})
  /\ InitAuthOf({NoItem})
  /\ InitRecorderOf(RecorderVariants)

NextRecorder ==
  \/ StartRecording
  \/ GetUserMediaResolves
  \/ GetUserMediaRejects
  \/ DataAvailable
  \/ RecorderFails
  \/ StopRecording
  \/ StopEvent
  \/ ResetRecording

SpecRecorder == InitRecorder /\ [][NextRecorder]_vars

----------------------------------------------------------------------------
(* Speech recognition: useTranscription of src/unnamed/part_005 (one        *)
(* instance kept in a ref) and the earlier one of src/hooks/useTranscription *)
(* (a new instance from recognition() on every call).  An instance is idle  *)
(* until start(), starting until its start event, active until stop(), and  *)
(* stopping until its end event; start() on an instance that is not idle    *)
(* throws InvalidStateError, stop() on an idle or stopping one does         *)
(* nothing.  The recogniser is taken never to end or fail on its own.       *)

SpeechVariants == {"useTranscription", "useTranscriptionEarlier"}

\* SpeechRecognition.stop() on instance i
stop(ss, i) ==
  IF ss[i] \in {"starting", "active"} THEN [ss EXCEPT ![i] = "stopping"] ELSE ss

SomeActive == \E i \in 1..Len(sessions) : sessions[i] = "active"

\* startListening of part_005: start(); on InvalidStateError stop() and a
\* timer that calls start() again after 100 ms.
startListeningRef ==
  /\ srVariant = "useTranscription"
  /\ IF sessions[1] = "idle"
     THEN /\ sessions' = [sessions EXCEPT ![1] = "starting"]
          /\ UNCHANGED restartTimer
     ELSE /\ ~restartTimer
          /\ sessions' = stop(sessions, 1)
          /\ restartTimer' = TRUE
  /\ restarted' = SomeActive
  /\ stopped' = FALSE
  /\ UNCHANGED <<srVariant, isListening, srTranscript, srError, srUncaught>>

StartListeningRef ==
  /\ startListeningRef
  /\ UNCHANGED voice
  /\ UNCHANGED <<storeVars, appVars, reflectionVars, recorderVars,
                 authVars>>

\* startListening of the earlier hook: a fresh instance is started.
startListeningEarlier ==
  /\ srVariant = "useTranscriptionEarlier"
  /\ Len(sessions) < MaxSessions
  /\ sessions' = Append(sessions, "starting")
  /\ restarted' = SomeActive
  /\ stopped' = FALSE
  /\ UNCHANGED <<srVariant, isListening, srTranscript, srError, srUncaught,
                 restartTimer>>

StartListeningEarlier ==
  /\ startListeningEarlier
  /\ UNCHANGED voice
  /\ UNCHANGED <<storeVars, appVars, reflectionVars, recorderVars,
                 authVars>>

\* setTimeout(() => { recognitionRef.current.start(); }, 100) fires; nothing
\* catches what start() throws there.
TimerFires ==
  /\ restartTimer
  /\ restartTimer' = FALSE
  /\ IF sessions[1] = "idle"
     THEN /\ sessions' = [sessions EXCEPT ![1] = "starting"]
          /\ UNCHANGED srUncaught
     ELSE /\ srUncaught' = TRUE
          /\ UNCHANGED sessions
  /\ UNCHANGED <<srVariant, isListening, srTranscript, srError, restarted,
                 stopped>>
  /\ UNCHANGED <<storeVars, appVars, reflectionVars, recorderVars,
                 authVars, voice>>

\* onstart
OnStart ==
  \E i \in 1..Len(sessions) :
    /\ sessions[i] = "starting"
    /\ sessions' = [sessions EXCEPT ![i] = "active"]
    /\ isListening' = TRUE
    /\ srError' = FALSE
    /\ UNCHANGED <<srVariant, srTranscript, srUncaught, restartTimer, restarted,
                   stopped>>
    /\ UNCHANGED <<storeVars, appVars, reflectionVars, recorderVars,
                 authVars, voice>>

\* onresult with a final result (a stopping instance may still deliver what
\* it has heard)
OnResult ==
  \E i \in 1..Len(sessions) :
    /\ sessions[i] \in {"active", "stopping"}
    /\ srTranscript < MaxResults
    /\ srTranscript' = srTranscript + 1
    /\ UNCHANGED <<srVariant, sessions, isListening, srError, srUncaught,
                   restartTimer, restarted, stopped>>
    /\ UNCHANGED <<storeVars, appVars, reflectionVars, recorderVars,
                 authVars, voice>>

\* onend
OnEnd ==
  \E i \in 1..Len(sessions) :
    /\ sessions[i] = "stopping"
    /\ sessions' = [sessions EXCEPT ![i] = "idle"]
    /\ isListening' = FALSE
    /\ UNCHANGED <<srVariant, srTranscript, srError, srUncaught, restartTimer,
                   restarted, stopped>>
    /\ UNCHANGED <<storeVars, appVars, reflectionVars, recorderVars,
                 authVars, voice>>

\* stopListening of part_005: stop() on the instance in the ref.
stopListeningRef ==
  /\ srVariant = "useTranscription"
  /\ sessions' = IF isListening THEN stop(sessions, 1) ELSE sessions
  /\ stopped' = SomeActive
  /\ restarted' = FALSE
  /\ UNCHANGED <<srVariant, isListening, srTranscript, srError, srUncaught,
                 restartTimer>>

StopListeningRef ==
  /\ stopListeningRef
  /\ UNCHANGED voice
  /\ UNCHANGED <<storeVars, appVars, reflectionVars, recorderVars,
                 authVars>>

\* stopListening of the earlier hook: recognition() builds a new instance,
\* stop() on it does nothing, and isListening is set to false.
stopListeningEarlier ==
  /\ srVariant = "useTranscriptionEarlier"
  /\ isListening' = FALSE
  /\ stopped' = SomeActive
  /\ restarted' = FALSE
  /\ UNCHANGED <<srVariant, sessions, srTranscript, srError, srUncaught,
                 restartTimer>>

StopListeningEarlier ==
  /\ stopListeningEarlier
  /\ UNCHANGED voice
  /\ UNCHANGED <<storeVars, appVars, reflectionVars, recorderVars,
                 authVars>>

InitSpeech ==
  /\ InitStore /\ InitChat /\ InitReflection
  /\ InitRecorderOf({"useVoiceRecorder"})
  /\ InitAuthOf({NoItem})
  /\ InitSpeechOf(SpeechVariants)

NextSpeech ==
  \/ StartListeningRef
  \/ StartListeningEarlier
  \/ TimerFires
  \/ OnStart
  \/ OnResult
  \/ OnEnd
  \/ StopListeningRef
  \/ StopListeningEarlier

SpecSpeech == InitSpeech /\ [][NextSpeech]_vars

----------------------------------------------------------------------------
(* Voice input in ChatInterface (src/components/ChatInterface.tsx): the     *)
(* record button calls handleStartRecording while isRecording is false and  *)
(* handleStopRecording while it is true.  startRecording of useVoiceRecorder *)
(* catches what getUserMedia rejects with, so the await returns either way. *)
(* One handleStartRecording at a time is kept suspended.                    *)

\* handleStartRecording up to await startRecording()
handleStartRecording ==
  /\ chatRec \in {"idle", "stopped"}
  /\ chatStarts < MaxRecordings
  /\ chatStarts' = chatStarts + 1
  /\ chatRec' = "starting"
  /\ srTranscript' = 0                       \* resetTranscript()
  /\ isReviewing' = FALSE
  /\ UNCHANGED <<srVariant, sessions, isListening, srError, srUncaught,
                 restartTimer, restarted, stopped, listenTimer>>
  /\ UNCHANGED <<storeVars, appVars, reflectionVars, recorderVars,
                 authVars>>

\* handleStartRecording after the await: setTimeout(() => startListening(),
\* 300), whether the microphone was granted or not.
StartRecordingReturns ==
  \E granted \in BOOLEAN :
    /\ chatRec = "starting"
    /\ chatRec' = IF granted THEN "recording" ELSE "idle"
    /\ listenTimer' = listenTimer + 1
    /\ UNCHANGED <<srVariant, sessions, isListening, srTranscript, srError,
                   srUncaught, restartTimer, restarted, stopped, chatStarts,
                   isReviewing>>
    /\ UNCHANGED <<storeVars, appVars, reflectionVars, recorderVars,
                   authVars>>

\* A 300 ms timer fires: startListening()
ListenTimerFires ==
  /\ listenTimer > 0
  /\ listenTimer' = listenTimer - 1
  /\ startListeningRef \/ startListeningEarlier
  /\ UNCHANGED <<chatRec, chatStarts, isReviewing>>
  /\ UNCHANGED <<storeVars, appVars, reflectionVars, recorderVars,
                 authVars>>

\* handleStopRecording: stopListening(); await stopRecording(); the review
\* opens when the transcript of this render is not blank.
handleStopRecording ==
  /\ chatRec = "recording"
  /\ stopListeningRef \/ stopListeningEarlier
  /\ chatRec' = "stopped"
  /\ isReviewing' = (srTranscript > 0)
  /\ UNCHANGED <<listenTimer, chatStarts>>
  /\ UNCHANGED <<storeVars, appVars, reflectionVars, recorderVars,
                 authVars>>

NextVoice ==
  \/ handleStartRecording
  \/ StartRecordingReturns
  \/ ListenTimerFires
  \/ TimerFires
  \/ OnStart
  \/ OnResult
  \/ OnEnd
  \/ handleStopRecording

SpecVoice == InitSpeech /\ [][NextVoice]_vars

----------------------------------------------------------------------------
(* The mock session provider: AuthProvider of src/hooks/useAuth.tsx.  The   *)
(* item 'user' of localStorage is null, the JSON text of a user, or a text  *)
(* JSON.parse rejects.  Calls suspended at the 1000 ms timer resume in the  *)
(* order they were made.                                                    *)

Emails == {<<>>, <<"a", "b">>, <<"@">>, <<"a", "@", "b">>}
Passwords == {Repeat("p", n) : n \in {0, MinPassword - 1, MinPassword}}

\* A user as JSON.stringify writes it and JSON.parse reads it back.
StoredUser(u) == Stored("object", u)
Sessions == {NoItem, NotJson,
             StoredUser([id |-> toString(0), email |-> <<"a", "@", "b">>])}

\* login's validation with the password one character shorter.
loginThrows_OneShorter(email, password) ==
  ~includes(email, <<"@">>) \/ Len(password) < MinPassword - 1

\* if (!email.includes('@') || password.length < 6) throw ...
loginThrows(email, password) ==
  ~includes(email, <<"@">>) \/ Len(password) < MinPassword

\* register's two checks, each with its own message.
registerThrows(email, password) ==
  ~includes(email, <<"@">>) \/ Len(password) < MinPassword

\* err.message of the Error the validation throws.
AuthMessage(op, email) ==
  IF op = "login" THEN "Invalid email or password"
  ELSE IF ~includes(email, <<"@">>) THEN "Invalid email format"
  ELSE "Password must be at least 6 characters"

\* useEffect(() => { ... }, []): restore the session.
AuthMountEffect ==
  /\ ~authMounted
  /\ authMounted' = TRUE
  /\ IF ~Truthy(authSession)
     THEN UNCHANGED <<authUser, authSession>>
     ELSE IF authSession.kind = "object"
          THEN authUser' = authSession.json /\ UNCHANGED authSession
          ELSE authSession' = NoItem /\ UNCHANGED authUser   \* removeItem
  /\ authIsLoading' = FALSE
  /\ authLast' = NoAuthCall
  /\ UNCHANGED <<authError, authPending, authCalls>>
  /\ UNCHANGED <<storeVars, appVars, reflectionVars, recorderVars, speechVars>>

\* login / register up to the await.
AuthCall ==
  \E op \in {"login", "register"}, email \in Emails, password \in Passwords :
    /\ authMounted
    /\ authCalls < MaxAuthCalls
    /\ authCalls' = authCalls + 1
    /\ authIsLoading' = TRUE
    /\ authError' = Null
    /\ authPending' = Append(authPending, [op |-> op, email |-> email,
                                           password |-> password])
    /\ authLast' = NoAuthCall
    /\ UNCHANGED <<authUser, authSession, authMounted>>
    /\ UNCHANGED <<storeVars, appVars, reflectionVars, recorderVars, speechVars>>

\* The timer of the oldest suspended call fires: the rest of its try block,
\* its catch and its finally.
AuthResumes ==
  /\ authPending # <<>>
  /\ LET c == Head(authPending)
         threw == IF c.op = "login" THEN loginThrows(c.email, c.password)
                  ELSE registerThrows(c.email, c.password)
         newUser == [id |-> toString(now), email |-> c.email]
     IN  /\ IF threw
            THEN /\ authError' = AuthMessage(c.op, c.email)
                 /\ UNCHANGED <<authUser, authSession>>
            ELSE /\ authSession' = StoredUser(newUser)
                 /\ authUser' = newUser
                 /\ UNCHANGED authError
         /\ authLast' = [op |-> c.op, email |-> c.email, password |-> c.password,
                         user |-> authUser, session |-> authSession]
  /\ authPending' = Tail(authPending)
  /\ authIsLoading' = FALSE
  /\ UNCHANGED <<authMounted, authCalls>>
  /\ UNCHANGED <<storeVars, appVars, reflectionVars, recorderVars, speechVars>>

\* logout
Logout ==
  /\ authMounted
  /\ authCalls < MaxAuthCalls
  /\ authCalls' = authCalls + 1
  /\ authSession' = NoItem
  /\ authUser' = NullUser
  /\ authLast' = NoAuthCall
  /\ UNCHANGED <<authIsLoading, authError, authMounted, authPending>>
  /\ UNCHANGED <<storeVars, appVars, reflectionVars, recorderVars, speechVars>>

InitAuth ==
  /\ InitStore /\ InitChat /\ InitReflection
  /\ InitRecorderOf({"useVoiceRecorder"})
  /\ InitSpeechOf({"useTranscription"})
  /\ InitAuthOf(Sessions)

NextAuth ==
  \/ AuthMountEffect
  \/ AuthCall
  \/ AuthResumes
  \/ Logout

SpecAuth == InitAuth /\ [][NextAuth]_vars

----------------------------------------------------------------------------
(* Mounting a store hook over what a browser may hold.  SpecLoad starts at  *)
(* the first render of either store hook, both effects pending, with any    *)
(* of the texts below in each slot the hook reads; it runs the effects and  *)
(* the renders they ask for, and (for the hook that reads useAuth) lets the *)
(* identity change.                                                         *)

\* An entry as the earlier store (useLocalStorage) writes it: no conversation.
LegacyEntry ==
  [id |-> toString(5), date |-> toISOString([time |-> 5]), audioUrl |-> Null,
   transcript |-> TextHi, reflection |-> Null]

SavedEntry == stringify(<<newEntry(<<Message(7, "user", TextHi, 1001)>>, Null, 1)>>)[1]

StoredTexts ==
  { NoItem, EmptyText, NotJson, NotAnArray,
    Item(<<>>), Item(<<SavedEntry>>),
    Item(<<LegacyEntry>>), Item(<<SavedEntry, LegacyEntry>>) }

\* "{}" is left out for the earlier hook: it would make entries a non-array.
LegacyStoredTexts == StoredTexts \ {NotAnArray}

InitLoad ==
  /\ hook \in {"useJournalStorage", "useLocalStorage"}
  /\ IF hook = "useJournalStorage"
     THEN storage \in [Keys -> StoredTexts]
     ELSE storage \in [{LegacyKey} -> LegacyStoredTexts]
  /\ entries = <<>>
  /\ user = NoUser
  /\ renderedUid = NoUser
  /\ queue = <<>>
  /\ effects = <<"load", "save">>
  /\ now = 1
  /\ calls = 0
  /\ last = NoCall
  /\ returned = <<>>
  /\ authChanges = 0
  /\ origin = {}
  /\ deleted = {}
  /\ serial = <<>>
  /\ switch = NoSwitch
  /\ write = "none"
  /\ uncaught = FALSE
  /\ got = NoRead
  /\ InitOutside

NextLoad ==
  \/ LoadEffect
  \/ SaveEffect
  \/ LegacyLoadEffect
  \/ LegacySaveEffect
  \/ Render
  \/ AuthChange

SpecLoad == InitLoad /\ [][NextLoad]_vars

----------------------------------------------------------------------------
(* Vocabulary of the properties. *)

\* The store call `op` was the last call made, it reported success, and the
\* render that applies its queued update has committed.
Applied(op) == last.op = op /\ last.ret /\ last.applied

\* What the data model asks of lastMessage: the final turn's text, cut to
\* 100 characters and marked "..." when it is longer.
ExpectedPreview(conversation) ==
  LET text == conversation[Len(conversation)].text
  IN  IF Len(text) <= 100 THEN text
      ELSE SubSeq(text, 1, 100) \o <<".", ".", ".">>

----------------------------------------------------------------------------
(* C1: once the update queued by addEntry(conversation, audioUrl) has been  *)
(* applied, getEntry(returned id) yields an entry whose conversation and    *)
(* audioUrl are the ones passed in.                                         *)

C1_GetReturnsCreated ==
  Applied("addEntry") =>
    LET e == getEntry(entries, last.id)
    IN  /\ e # Undefined
        /\ e.conversation = last.arg
        /\ e.audioUrl = last.audio

(* C2: no two entries of the in-memory collection share an id, and every    *)
(* id returned by addEntry differs from all ids returned before, also when  *)
(* two addEntry calls read the same Date.now().                             *)

C2_UniqueIds ==
  /\ \A i, j \in 1..Len(entries) : entries[i].id = entries[j].id => i = j
  /\ \A i, j \in 1..Len(returned) : returned[i] = returned[j] => i = j

(* C3: no entry created while identity A was current is ever visible under *)
(* another identity B: neither in the slot journalEntries_B, in any state   *)
(* (the states between the load and the save effect included), nor in the   *)
(* collection the hook exposes while B is the rendered identity.            *)

\* The id was given to an entry created under an identity other than b, and
\* to none created under b.
CreatedUnderAnother(id, b) ==
  /\ \E a \in Uids \ {b} : <<id, a>> \in origin
  /\ <<id, b>> \notin origin

C3_NoCrossIdentityVisibility ==
  \A b \in Uids :
    /\ \A id \in IdsOf(storage[getStorageKey(b)].json) :
         ~CreatedUnderAnother(id, b)
    /\ renderedUid = b =>
         \A id \in IdsOf(entries) : ~CreatedUnderAnother(id, b)

(* C4: continueConversation and deleteEntry called with an id that is not   *)
(* in the collection return false and leave the in-memory collection, the   *)
(* pending updates and every stored slot as they were.                      *)

C4_NotFoundChangesNothing ==
  [][ ( /\ calls' = calls + 1
        /\ last'.op \in {"continueConversation", "deleteEntry"}
        /\ last'.id \notin IdsOf(entries) )
      => ( /\ last'.ret = FALSE
           /\ entries' = entries
           /\ queue' = queue
           /\ storage' = storage ) ]_vars

C4_Witness ==
  /\ last.op = "continueConversation"
  /\ ~last.ret
  /\ Len(entries) > 0
  /\ last.id \notin IdsOf(entries)
  /\ storage[getStorageKey(renderedUid)].json # <<>>

(* C5: continueConversation(id, newTurns) with an id in the collection      *)
(* returns true; once applied, the first entry with that id has its former  *)
(* conversation followed by newTurns, lastMessage is the preview of the new *)
(* final turn, its id, date, title and audioUrl are unchanged, and so are   *)
(* all other entries and the order of the collection.                       *)

C5_ContinueAppends ==
  /\ (last.op = "continueConversation" /\ last.id \in IdsOf(last.before))
       => last.ret
  /\ Applied("continueConversation") =>
       LET k   == CHOOSE i \in 1..Len(last.before) :
                    /\ last.before[i].id = last.id
                    /\ \A j \in 1..(i - 1) : last.before[j].id # last.id
           old == last.before[k]
           new == entries[k]
       IN  /\ Len(entries) = Len(last.before)
           /\ new.conversation = old.conversation \o last.arg
           /\ new.conversation # <<>> =>
                new.lastMessage = ExpectedPreview(new.conversation)
           /\ new.id = old.id /\ new.date = old.date
           /\ new.title = old.title /\ new.audioUrl = old.audioUrl
           /\ \A j \in 1..Len(entries) : j # k => entries[j] = last.before[j]

C5_Witness ==
  /\ Applied("continueConversation")
  /\ Len(last.arg) = 2
  /\ Len(entries) > 1
  /\ \E i \in 1..Len(entries) :
       /\ entries[i].id = last.id
       /\ Len(entries[i].conversation) > Len(last.arg)
       /\ entries[i].lastMessage # last.before[i].lastMessage

(* C6: after deleteEntry(id) has succeeded and been applied, getEntry(id)   *)
(* is undefined and the entries with other ids are all still there,         *)
(* unchanged and in the same relative order.                                *)

C6_DeleteRemovesOnlyThatId ==
  Applied("deleteEntry") =>
    /\ last.id \in IdsOf(last.before)
    /\ getEntry(entries, last.id) = Undefined
    /\ entries = SelectSeq(last.before, LAMBDA e : e.id # last.id)

C6_Witness ==
  /\ Applied("deleteEntry")
  /\ entries # <<>>
  /\ Len(entries) < Len(last.before)

(* C7: in every reachable state the lastMessage of each entry is the text   *)
(* of the final turn of its conversation when that has at most 100          *)
(* characters, and else its first 100 characters followed by "...".         *)

ContainsIgnoringCase(text, q) ==
  \E off \in 0..(Len(text) - Len(q)) :
    \A k \in 1..Len(q) : LowerChar(text[off + k]) = LowerChar(q[k])

EntryMatches(e, q) ==
  \E k \in 1..Len(e.conversation) :
    ContainsIgnoringCase(e.conversation[k].text, q)

Matching(es, q) == SelectSeq(es, LAMBDA e : EntryMatches(e, q))

Blank(q) == \A i \in 1..Len(q) : q[i] \in Whitespace

C8_SearchAnyNonEmptyQuery ==
  (last.op = "searchEntries" /\ last.arg # <<>>) =>
    last.result = Matching(entries, last.arg)

(* C8 as amended: for every query q with a character that is not            *)
(* whitespace, searchEntries(q) returns exactly the entries that have a     *)
(* turn whose text contains q ignoring case, in collection order; for a     *)
(* query that is empty or only whitespace it returns the whole collection.  *)

C8_SearchNonBlankQuery ==
  last.op = "searchEntries" =>
    last.result = IF Blank(last.arg) THEN entries
                  ELSE Matching(entries, last.arg)

C8_Witness ==
  /\ last.op = "searchEntries"
  /\ ~Blank(last.arg)
  /\ last.arg # toLowerCase(last.arg)
  /\ last.result # <<>>
  /\ Len(last.result) < Len(entries)

(* C9: searchEntries("") returns the whole collection, same entries in the  *)
(* same order, and no call of searchEntries changes the in-memory           *)
(* collection, the pending updates or any stored slot.                      *)

C9_SearchIsReadOnly ==
  [][ (calls' = calls + 1 /\ last'.op = "searchEntries")
      => ( /\ entries' = entries
           /\ queue' = queue
           /\ storage' = storage
           /\ last'.arg = <<>> => last'.result = entries ) ]_vars

C9_Witness ==
  /\ last.op = "searchEntries"
  /\ last.arg = <<>>
  /\ Len(last.result) > 1
  /\ \E i \in 1..Len(entries) : entries[i].conversation = <<>>
  /\ storage[getStorageKey(renderedUid)].json # <<>>

(* C10: for every nonempty collection C, what the load effect makes of the  *)
(* slot the save effect wrote for C equals C, every turn's timestamp being  *)
(* the same instant.                                                        *)

C10_RoundTrip ==
  LET slot == storage[getStorageKey(renderedUid)]
  IN  (effects = <<>> /\ slot.present /\ entries # <<>>) =>
        /\ processEntries(slot.json) = entries
        /\ \A i \in 1..Len(entries) :
             \A k \in 1..Len(entries[i].conversation) :
               processEntries(slot.json)[i].conversation[k].timestamp.time
                 = entries[i].conversation[k].timestamp.time

C10_Witness ==
  /\ effects = <<>>
  /\ Len(entries) > 1
  /\ storage[getStorageKey(renderedUid)].json # <<>>
  /\ \E i \in 1..Len(entries) :
       /\ Len(entries[i].conversation) > 2
       /\ \E k \in 1..Len(entries[i].conversation) :
            entries[i].conversation[k].timestamp.time % 1000 # 0

----------------------------------------------------------------------------
\* Every effect of the identity change has run and its update is committed.
Settled == effects = <<>> /\ queue = <<>> /\ user = renderedUid

\* The collection the load effect builds from a slot.
Deserialised(item) == IF item.present THEN processEntries(item.json) ELSE <<>>

(* C11: when the identity changed from A to B and every effect has run, the *)
(* collection in memory is the one deserialised from B's slot as it was     *)
(* before the change (empty when B had no slot), and A's slot still holds   *)
(* the serialisation of the collection A had before the change.             *)
C11_SwitchLoadsOtherSlot ==
  switch.active /\ Settled =>
    /\ entries = Deserialised(switch.storage[getStorageKey(user)])
    /\ storage[getStorageKey(switch.from)] = Item(stringify(switch.entries))

\* A came back to a slot it had filled before: u1 saved an entry, left, and
\* the change back to u1 has settled, while the identity left has a slot too.
C11_Witness ==
  /\ switch.active /\ Settled
  /\ entries # <<>>
  /\ switch.entries # entries
  /\ storage[getStorageKey(switch.from)].present

----------------------------------------------------------------------------
Mutations == {"addEntry", "continueConversation", "updateEntry", "deleteEntry"}

\* The committed collection shows what the last mutating call asked for.
Kept ==
  CASE last.op = "addEntry" ->
         /\ entries # <<>>
         /\ entries[Len(entries)].id = last.id
         /\ entries[Len(entries)].conversation = last.arg
         /\ entries[Len(entries)].audioUrl = last.audio
    [] last.op = "continueConversation" ->
         entries = continueConversation(last.before, last.id, last.arg).value
    [] last.op = "updateEntry" ->
         entries = updateEntry(last.before, last.id, last.arg).value
    [] last.op = "deleteEntry" ->
         entries = deleteEntry(last.before, last.id).value
    [] OTHER -> FALSE

(* C12: after a successful addEntry, continueConversation, updateEntry or   *)
(* deleteEntry, once the save effect of the render that applied it has run  *)
(* and setItem returned, the slot of the current identity holds the         *)
(* serialisation of the whole in-memory collection.                         *)
C12_MutationPersisted ==
  last.op \in Mutations /\ Applied(last.op) /\ write = "stored" =>
    /\ effects = <<>>
    /\ storage[getStorageKey(renderedUid)] = Item(stringify(entries))

\* A delete that left something behind has been applied and written.
C12_Witness ==
  /\ Applied("deleteEntry") /\ write = "stored"
  /\ entries # <<>>
  /\ storage[getStorageKey(renderedUid)].json # stringify(last.before)

(* C14: when setItem throws in the save effect that follows a mutation, the *)
(* call had returned its normal result, the in-memory collection keeps the  *)
(* mutation, no save effect is left pending (the write is not retried) and  *)
(* no exception has left the hook.                                          *)
C14_FailedWriteIsSwallowed ==
  last.op \in Mutations /\ Applied(last.op) /\ write = "threw" =>
    /\ last.ret
    /\ Kept
    /\ effects = <<>> /\ queue = <<>>
    /\ ~uncaught

\* An entry was added, its write failed, and the slot is behind the memory.
C14_Witness ==
  /\ Applied("addEntry") /\ write = "threw"
  /\ entries # <<>>
  /\ storage[getStorageKey(renderedUid)] # Item(stringify(entries))

----------------------------------------------------------------------------
\* Some entry of the stored array has no conversation list.
LacksConversation(item) ==
  /\ item.kind = "array"
  /\ \E i \in 1..Len(item.json) : "conversation" \notin DOMAIN item.json[i]

\* The load effect has run for the rendered identity and the render it asked
\* for (if any) has committed.
Loaded ==
  /\ got # NoRead
  /\ queue = <<>> /\ user = renderedUid
  /\ \A i \in 1..Len(effects) : effects[i] # "load"

(* C13 as stated: in either store hook, after loading a slot that is absent, *)
(* or does not parse, or has an entry without a conversation list, the      *)
(* in-memory collection is empty and no exception has left the hook.        *)
C13_UnloadableSlotEmpties ==
  Loaded /\ (~got.present \/ got.kind = "text" \/ LacksConversation(got)) =>
    entries = <<>> /\ ~uncaught

(* C13 amended: the same for a slot that is absent or does not parse in     *)
(* either hook, and for an entry without a conversation list in             *)
(* useJournalStorage only; useLocalStorage commits whatever array parses.   *)
C13_UnloadableSlotEmptiesPerHook ==
  /\ Loaded /\ (~got.present \/ got.kind = "text") =>
       entries = <<>> /\ ~uncaught
  /\ Loaded /\ LacksConversation(got) =>
       /\ ~uncaught
       /\ hook = "useJournalStorage" => entries = <<>>
       /\ hook = "useLocalStorage" => entries = got.json

\* useJournalStorage met a slot with a well-formed entry and one without a
\* conversation, committed the empty collection, and has written it back.
C13_Witness ==
  /\ hook = "useJournalStorage" /\ Loaded
  /\ got = Item(<<SavedEntry, LegacyEntry>>)
  /\ entries = <<>>
  /\ storage[getStorageKey(renderedUid)] = Item(<<>>)

----------------------------------------------------------------------------
NewJournalEntry ==
  <<"N","e","w"," ","J","o","u","r","n","a","l"," ","E","n","t","r","y">>

\* Positions of the spaces of a text.
Spaces(text) == {i \in 1..Len(text) : text[i] = " "}

\* The text up to its fifth space (what the first five space-separated words
\* joined by single spaces spell), marked "..." when there is a fifth space,
\* that is when the text has more than five such words.
ExpectedTitle(conversation) ==
  LET users == {i \in 1..Len(conversation) : conversation[i].sender = "user"}
  IN  IF users = {} THEN NewJournalEntry
      ELSE LET text == conversation[CHOOSE i \in users : \A j \in users : i <= j].text
           IN  IF Cardinality(Spaces(text)) < 5 THEN text
               ELSE LET fifth == CHOOSE i \in Spaces(text) :
                                   Cardinality({j \in Spaces(text) : j < i}) = 4
                    IN  SubSeq(text, 1, fifth - 1) \o <<".", ".", ".">>

\* The entry that the last addEntry call appended.
Added == entries[Len(entries)]

(* C15: the entry addEntry appended has as title the first five             *)
(* space-separated words of the first user turn's text joined by single     *)
(* spaces, followed by "..." exactly when the text has more than five, and  *)
(* "New Journal Entry" when there is no user turn; for the conversation     *)
(* [{user, "I feel tired"}] title and lastMessage are both "I feel tired".  *)
C15_TitleFromFirstUserTurn ==
  Applied("addEntry") =>
    /\ Added.title = ExpectedTitle(last.arg)
    /\ Len(last.arg) = 1 /\ last.arg[1].sender = "user"
         /\ last.arg[1].text = TextTired =>
           Added.title = TextTired /\ Added.lastMessage = TextTired

\* "I feel tired" was added first, then a conversation whose first user turn
\* has seven words, which got the first five and the mark.
C15_Witness ==
  /\ Applied("addEntry")
  /\ Len(entries) = 2
  /\ entries[1].title = TextTired /\ entries[1].lastMessage = TextTired
  /\ Added.title = SubSeq(TextSeven, 1, 9) \o <<".", ".", ".">>

----------------------------------------------------------------------------
(* C16: every entry of the collection has a non-empty conversation, however *)
(* the application saved it: Save pressed in ChatInterface with zero, one   *)
(* or more turns, passed to addEntry or to continueConversation.            *)
C16_ConversationsNonEmpty ==
  \A i \in 1..Len(entries) : entries[i].conversation # <<>>

----------------------------------------------------------------------------
\* The call met one of the failures the contract lists.
Failed(r) ==
  \/ ~apiKey
  \/ r.cause \in {"no key", "network error", "not ok", "empty reply",
                  "empty input"}
  \/ trim(r.transcript) = <<>>

(* C17: in both useAIReflection variants, calling the hook does not throw,  *)
(* every generateReflection call resolves, a call that met a failure        *)
(* (missing key, network error, non-OK status, empty reply, empty input)    *)
(* resolves to the variant's fallback text, and isGenerating is false once  *)
(* the call has ended.                                                      *)
C17_ReflectionNeverFails ==
  /\ aiHook # "threw"
  /\ \A i \in 1..Len(aiResults) :
       /\ aiResults[i].how = "resolved"
       /\ Failed(aiResults[i]) => aiResults[i].value = Fallback(aiVariant)
  /\ aiCall.stage = "idle" => ~isGenerating

----------------------------------------------------------------------------
(* C18: once stopRecording has been called and has completed (its recorder's *)
(* stop event dispatched, no getUserMedia still pending), no track obtained  *)
(* by the recorder hook is live, whatever the order of the startRecording    *)
(* and stopRecording calls before it.                                        *)
C18_StopReleasesMicrophone ==
  /\ afterStop
  /\ startsPending = 0
  /\ \A i \in 1..Len(streams) : ~streams[i].stopEvent
  => \A i \in 1..Len(streams) : ~streams[i].live

----------------------------------------------------------------------------
\* Nothing the last call set in motion is still to happen: no timer is
\* pending and no instance is between start() and its start event or between
\* stop() and its end event.
SpeechSettled ==
  /\ ~restartTimer
  /\ \A i \in 1..Len(sessions) : sessions[i] \in {"idle", "active"}

(* C19: after startListening was called while recognition was active, once  *)
(* the end event and the 100 ms timer have both happened (in either order), *)
(* the adapter is active, no exception went uncaught and no error is set.   *)
C19_RestartStaysActive ==
  restarted /\ SpeechSettled =>
    isListening /\ SomeActive /\ ~srUncaught /\ ~srError

(* C20: after stopListening was called while recognition was active, once   *)
(* the end event has happened, the adapter is idle (isListening false) and  *)
(* no recognition session is left that could append results.                *)
C20_StopEndsSession ==
  stopped /\ SpeechSettled =>
    ~isListening /\ ~SomeActive

(* C21: after resetRecording, and until a recording is started or stopped,  *)
(* the audio handle is null and the chunk buffer is empty, in whichever     *)
(* order resetRecording and the recorder's stop event happen.               *)
C21_ResetDiscards ==
  afterReset => audioURL = Null /\ audioChunks = 0

\* The entries written in a slot.
SlotIds(item) ==
  IF item.present /\ item.kind = "array"
  THEN {item.json[i].id : i \in 1..Len(item.json)} ELSE {}

(* C22: once deleteEntry(id) has returned true and the renders and effects  *)
(* it caused have run, neither the collection in memory under that identity *)
(* nor that identity's slot holds an entry with that id, whatever calls     *)
(* were made afterwards.                                                    *)
C22_DeletedStaysDeleted ==
  Settled =>
    \A d \in deleted :
      /\ renderedUid = d[2] => d[1] \notin IdsOf(entries)
      /\ d[1] \notin SlotIds(storage[getStorageKey(d[2])])

\* Credentials the validation is to reject: an email without "@", or a
\* password of fewer than 6 characters.
Malformed(call) ==
  /\ call.op \in {"login", "register"}
  /\ \/ \A i \in 1..Len(call.email) : call.email[i] # "@"
     \/ Len(call.password) < 6

(* C23: when a login or register call with malformed credentials completes, *)
(* the user and the persisted session are what they were, error holds a     *)
(* message, and isLoading is false.                                         *)
C23_MalformedCredentialsRejected ==
  Malformed(authLast) =>
    /\ authUser = authLast.user
    /\ authSession = authLast.session
    /\ authError # Null
    /\ authIsLoading = FALSE

\* A login with a five-character password has completed while a user was
\* signed in.
C23_Witness ==
  /\ authLast.op = "login"
  /\ Len(authLast.password) = 5
  /\ \E i \in 1..Len(authLast.email) : authLast.email[i] = "@"
  /\ authLast.user # NullUser

(* C24: the step from the list to the view of an entry (handleSelectEntry)  *)
(* ends in a view whose messages are the stored conversation of the entry   *)
(* with the selected id.                                                     *)
C24_SelectShowsConversation ==
  [][view = "list" /\ view' = "view" =>
       /\ getEntry(entries', selectedEntryId') # Undefined
       /\ messages' = getEntry(entries', selectedEntryId').conversation]_vars

(* C25: when the save of a continued conversation has been applied, the     *)
(* selected entry holds exactly the turns the chat showed (with the summary *)
(* turn, if any): the conversation it had when the continuation began,      *)
(* followed by the turns made since, none twice and none missing; and       *)
(* addEntry was not called.                                                 *)
C25_ContinuationAddsNewTurns ==
  saveLog.continuation /\ last.op = "continueConversation" =>
    /\ last.ret
    /\ last.applied =>
         LET e == getEntry(entries, saveLog.id)
         IN  /\ e # Undefined
             /\ e.conversation = saveLog.passed
             /\ SubSeq(e.conversation, 1, Len(saveLog.start)) = saveLog.start
             /\ Len(returned) = saveLog.returned

\* A continuation of an entry with turns, to which turns were added, has
\* been saved and applied.
C25_Witness ==
  /\ saveLog.continuation
  /\ last.op = "continueConversation" /\ last.applied
  /\ Len(saveLog.start) > 0
  /\ Len(saveLog.passed) > Len(saveLog.start) + 1

\* The turns appended to messages since ChatInterface was mounted.
TurnsSinceMount ==
  SubSeq(messages, Len(initialMessages) + 1, Len(messages))

C28_SavedOnceWithoutFailedSummary ==
  /\ saveLog.calls <= saveLog.presses
  /\ ~pendingSave.active => saveLog.calls = saveLog.presses
  /\ saveLog.failed => saveLog.passed = saveLog.messages

(* C26: once every queued update is committed, the collection in memory is  *)
(* the one obtained by applying the mutations made since the last load one  *)
(* after another, each to the result of the one before, also for calls made *)
(* from a closure that an earlier call of the same render has outdated.     *)
C26_MutationsApplySerially == Settled => entries = serial

\* The slot the mounted hook reads and writes, and what its load effect
\* makes of a stored text.
MountedKey ==
  IF hook = "useJournalStorage" THEN getStorageKey(renderedUid) ELSE LegacyKey

Parsed(item) ==
  IF hook = "useJournalStorage" THEN tryLoad(item) ELSE tryLoadLegacy(item)

(* C30: when the load effect of the mount found a collection it could       *)
(* parse, then until the first store call or identity change the slot holds *)
(* a text that parses to that same collection, also between the load        *)
(* effect and the save effect of the first commit.                          *)
C30_MountKeepsSlot ==
  /\ calls = 0 /\ authChanges = 0
  /\ got.present /\ got.kind = "array" /\ ~Parsed(got).threw
  => /\ storage[MountedKey].kind = "array"
     /\ Parsed(storage[MountedKey]) = Parsed(got)

(* C29: once handleStopRecording has stopped the recording and every timer  *)
(* and recogniser event that was pending has happened, no recognition       *)
(* instance is active: transcription does not go on after the recording.    *)
C29_StopRecordingEndsTranscription ==
  chatRec = "stopped" /\ listenTimer = 0 /\ SpeechSettled => ~SomeActive

====
